---- MODULE Spec2Model ----
(***************************************************************************)
(* Model of renderMarkdown (src/unnamed/part_001): the definition          *)
(* extractor, the block parser, the inline renderer with its placeholder   *)
(* vault, and the post-processor (table of contents, footnotes, final      *)
(* substitution).                                                          *)
(*                                                                         *)
(* A string is a sequence of tokens.  A token is a TLA+ string that stands *)
(* for exactly the characters it spells: one character ("a", "*", "\n"),   *)
(* a word of letters that the inputs never split ("constructor", "toc"),   *)
(* or a piece of produced markup ("</code>").  Concatenating the tokens of *)
(* a result gives the string the code returns.  The two private-use        *)
(* characters U+E000 and U+E001 of a placeholder key are the tokens        *)
(* "\\uE000" and "\\uE001"; the section sign pair of TOC_PLACEHOLDER is    *)
(* spelled "SS" and the backtick character is spelled "BACKTICK" (BT).     *)
(***************************************************************************)
EXTENDS Integers, Sequences, FiniteSets, TLC

VARIABLES src, pc, lineNo, remaining, linkDefs, footnoteDefs, abbrDefs,
          html, placeholderMap, placeholderId, headings, restoreIdx, calls

vars == <<src, pc, lineNo, remaining, linkDefs, footnoteDefs, abbrDefs,
          html, placeholderMap, placeholderId, headings, restoreIdx, calls>>

RECURSIVE renderInline(_, _, _)
RECURSIVE ApplyRule(_, _, _, _, _)
RECURSIVE parseBlocks(_, _, _)
RECURSIVE parseListAt(_, _, _, _)

-----------------------------------------------------------------------------
(* Character classes of the regular expressions, over the tokens.          *)

LowerLetters ==
  {"a", "b", "c", "d", "e", "f", "u", "v", "x", "z", "constructor", "toc", "color", "red", "smile",
   "http", "https", "ftp", "proto", "md"}
UpperLetters == {"A", "B", "C", "X", "TOC", "MD"}
Letters == LowerLetters \cup UpperLetters
Digits == {"0", "1", "2", "3", "4", "5", "6", "7", "8", "9"}
\* the backtick character
BT == "BACKTICK"
\* \s
Space == {" ", "\t", "\n", "\r"}
\* \w
WordChars == Letters \cup Digits \cup {"_"}

Min(S) == CHOOSE m \in S : \A n \in S : m <= n
Max(S) == CHOOSE m \in S : \A n \in S : m >= n

\* s.slice(a - 1, b): the characters a..b, empty when b < a
Slice(s, lo, hi) == IF hi < lo THEN <<>> ELSE SubSeq(s, lo, hi)
Sub(s, a, b) == Slice(s, IF a < 1 THEN 1 ELSE a, IF b > Len(s) THEN Len(s) ELSE b)

\* the least element of J, none when J is empty
MinOr(J, none) == IF J = {} THEN none ELSE Min(J)

\* index of the first character at or after i that is in set C, 0 when none
FirstFrom(s, i, C) == MinOr({j \in i..Len(s) : s[j] \in C}, 0)

\* does pat occur in s at index i
SeqAt(s, i, pat) ==
  /\ i >= 1
  /\ i + Len(pat) - 1 <= Len(s)
  /\ \A k \in 1..Len(pat) : s[i + k - 1] = pat[k]

\* index of the first occurrence of pat at or after i, 0 when none
FirstSeqFrom(s, i, pat) == MinOr({j \in i..Len(s) : SeqAt(s, j, pat)}, 0)

\* String.prototype.includes
Includes(s, pat) == FirstSeqFrom(s, 1, pat) # 0

RECURSIVE Flatten(_)
Flatten(ss) == IF ss = <<>> THEN <<>> ELSE Head(ss) \o Flatten(Tail(ss))

\* Array.prototype.join
RECURSIVE Join(_, _)
Join(ss, sep) ==
  IF ss = <<>> THEN <<>>
  ELSE IF Len(ss) = 1 THEN ss[1]
  ELSE ss[1] \o sep \o Join(Tail(ss), sep)

\* String.prototype.split with a one-character separator
RECURSIVE SplitOn(_, _)
SplitOn(s, c) ==
  LET j == FirstFrom(s, 1, {c})
  IN IF j = 0 THEN <<s>>
     ELSE <<Sub(s, 1, j - 1)>> \o SplitOn(Sub(s, j + 1, Len(s)), c)

\* s.split(pat).join(rep): every occurrence of pat, left to right, replaced
RECURSIVE SplitJoin(_, _, _)
SplitJoin(s, pat, rep) ==
  LET j == FirstSeqFrom(s, 1, pat)
  IN IF j = 0 THEN s
     ELSE Sub(s, 1, j - 1) \o rep \o SplitJoin(Sub(s, j + Len(pat), Len(s)), pat, rep)

\* String.prototype.trim
Span(s, J) == IF J = {} THEN <<>> ELSE SubSeq(s, Min(J), Max(J))
Trim(s) == Span(s, {j \in 1..Len(s) : s[j] \notin Space})

\* !line.trim()
IsBlank(s) == \A j \in 1..Len(s) : s[j] \in Space

\* number of leading characters of s that are in C
LeadRun(s, C) == MinOr({j \in 1..Len(s) : s[j] \notin C}, Len(s) + 1) - 1

\* String.prototype.toLowerCase
LowerTok(t) ==
  CASE t = "A" -> "a"
    [] t = "B" -> "b"
    [] t = "C" -> "c"
    [] t = "X" -> "x"
    [] t = "TOC" -> "toc"
    [] t = "MD" -> "md"
    [] OTHER -> t
toLowerCase(s) == [j \in 1..Len(s) |-> LowerTok(s[j])]

\* s.replace(/\r\n?/g, "\n")
RECURSIVE NormalizeNewlines(_)
NormalizeNewlines(s) ==
  IF s = <<>> THEN <<>>
  ELSE IF s[1] = "\r"
       THEN <<"\n">> \o NormalizeNewlines(
              IF Len(s) >= 2 /\ s[2] = "\n" THEN Sub(s, 3, Len(s)) ELSE Tail(s))
       ELSE <<s[1]>> \o NormalizeNewlines(Tail(s))

-----------------------------------------------------------------------------
(* escapeHtml, escapeHtmlAttr, unescapeMdUrl, slugify (lines 29-49).       *)

EscTok(t) ==
  CASE t = "&" -> "&amp;"
    [] t = "<" -> "&lt;"
    [] t = ">" -> "&gt;"
    [] t = "&amp;" -> "&amp;amp;"
    [] t = "&lt;" -> "&amp;lt;"
    [] t = "&gt;" -> "&amp;gt;"
    [] t = "&quot;" -> "&amp;quot;"
    [] OTHER -> t
escapeHtml(str) == [j \in 1..Len(str) |-> EscTok(str[j])]

escapeHtmlAttr(str) ==
  [j \in 1..Len(str) |-> IF str[j] = "\"" THEN "&quot;" ELSE EscTok(str[j])]

\* str.replace(/\\([()])/g, "$1")
RECURSIVE unescapeMdUrl(_)
unescapeMdUrl(str) ==
  IF str = <<>> THEN <<>>
  ELSE IF str[1] = "\\" /\ Len(str) >= 2 /\ str[2] \in {"(", ")"}
       THEN <<str[2]>> \o unescapeMdUrl(Sub(str, 3, Len(str)))
       ELSE <<str[1]>> \o unescapeMdUrl(Tail(str))

\* .replace(/<[\/!]*?[^<>]*?>/g, ""): a "<" up to the next ">" with no "<"
\* or ">" between is removed
RECURSIVE StripTags(_)
StripTags(s) ==
  IF s = <<>> THEN <<>>
  ELSE LET j == FirstFrom(s, 2, {"<", ">"})
       IN IF s[1] = "<" /\ j # 0 /\ s[j] = ">"
          THEN StripTags(Sub(s, j + 1, Len(s)))
          ELSE <<s[1]>> \o StripTags(Tail(s))

\* .replace(/\s+/g, "-") and .replace(/-+/g, "-")
RECURSIVE CollapseRuns(_, _, _)
CollapseRuns(s, C, rep) ==
  IF s = <<>> THEN <<>>
  ELSE IF s[1] \in C
       THEN <<rep>> \o CollapseRuns(Sub(s, LeadRun(s, C) + 1, Len(s)), C, rep)
       ELSE <<s[1]>> \o CollapseRuns(Tail(s), C, rep)

slugify(str) ==
  LET lower == Trim(toLowerCase(str))
      noTags == StripTags(lower)
      kept == SelectSeq(noTags, LAMBDA t : t \in LowerLetters \cup Digits \cup Space \cup {"-"})
  IN CollapseRuns(CollapseRuns(kept, Space, "-"), {"-"}, "-")

-----------------------------------------------------------------------------
(* JavaScript objects used as tables (linkDefs, footnoteDefs, abbrDefs,    *)
(* EMOJI_MAP): a sequence of <<key, value>> pairs in insertion order, the  *)
(* own properties, in front of Object.prototype.                           *)

\* the lower-case names that every object inherits from Object.prototype
\* and that the tokens can spell
ProtoKeys == {<<"constructor">>}

\* "__proto__", the accessor of Object.prototype
ProtoName == <<"_", "_", "proto", "_", "_">>

Undefined == [kind |-> "undefined"]
Inherited == [kind |-> "inherited"]
Own(v) == [kind |-> "own", val |-> v]
\* Object.prototype itself, the value of obj.__proto__ on a plain object
ObjectPrototype == [kind |-> "inherited", text |-> <<"[object Object]">>]

HasOwn(obj, key) == \E j \in 1..Len(obj) : obj[j][1] = key

\* obj[key]
ObjGet(obj, key) ==
  IF HasOwn(obj, key)
  THEN Own(obj[CHOOSE j \in 1..Len(obj) : obj[j][1] = key][2])
  ELSE IF key = ProtoName THEN ObjectPrototype
  ELSE IF key \in ProtoKeys THEN Inherited ELSE Undefined

\* obj[key] = val, and map.set(key, val).  With key "__proto__" and val an
\* object the assignment replaces the prototype, which obj["__proto__"]
\* then returns: the pair is kept like an own one (but see ObjKeys).
ObjSet(obj, key, val) ==
  IF HasOwn(obj, key)
  THEN [j \in 1..Len(obj) |-> IF obj[j][1] = key THEN <<key, val>> ELSE obj[j]]
  ELSE Append(obj, <<key, val>>)

\* obj[key] = val with val a string: the setter of "__proto__" ignores a
\* value that is neither an object nor null
ObjSetString(obj, key, val) ==
  IF key = ProtoName THEN obj ELSE ObjSet(obj, key, val)

DigitVal(d) ==
  CASE d = "0" -> 0 [] d = "1" -> 1 [] d = "2" -> 2 [] d = "3" -> 3 [] d = "4" -> 4
    [] d = "5" -> 5 [] d = "6" -> 6 [] d = "7" -> 7 [] d = "8" -> 8 [] d = "9" -> 9

\* the order of the numbers that two digit strings without leading zeros
\* spell: the shorter is the smaller, those of one length compare digit by
\* digit
KeyLeq(a, b) ==
  \/ Len(a) < Len(b)
  \/ /\ Len(a) = Len(b)
     /\ \/ a = b
        \/ \E j \in 1..Len(a) : /\ Sub(a, 1, j - 1) = Sub(b, 1, j - 1)
                                /\ DigitVal(a[j]) < DigitVal(b[j])

\* the largest array index, 2^32 - 2
MAX_INDEX == <<"4", "2", "9", "4", "9", "6", "7", "2", "9", "4">>

\* a canonical array index: "0", or digits without a leading zero that
\* spell a number up to 2^32 - 2
IsIndexKey(key) ==
  /\ key # <<>>
  /\ \A j \in 1..Len(key) : key[j] \in Digits
  /\ (Len(key) > 1 => key[1] # "0")
  /\ KeyLeq(key, MAX_INDEX)

RECURSIVE SortIndexKeys(_)
SortIndexKeys(K) ==
  IF K = {} THEN <<>>
  ELSE LET m == CHOOSE k \in K : \A o \in K : KeyLeq(k, o)
       IN <<m>> \o SortIndexKeys(K \ {m})

\* Object.keys(obj): the index keys in ascending order, then the other keys
\* in insertion order
ObjKeys(obj) ==
  LET all == SelectSeq([j \in 1..Len(obj) |-> obj[j][1]], LAMBDA k : k # ProtoName)
  IN SortIndexKeys({all[j] : j \in {k \in 1..Len(all) : IsIndexKey(all[k])}})
       \o SelectSeq(all, LAMBDA k : ~IsIndexKey(k))

\* EMOJI_MAP (lines 11-25); the glyph is spelled by its name
EMOJI_MAP == << <<<<"smile">>, <<"{smile}">>>> >>

\* TOC_PLACEHOLDER (line 27)
TOC_PLACEHOLDER == <<"SS", "_", "_", "MD", "_", "TOC", "_", "_", "SS">>

-----------------------------------------------------------------------------
(* The placeholder vault (lines 140-155).  A context ctx carries the       *)
(* mutable state of one renderMarkdown call: placeholderMap (a Map: pairs  *)
(* in insertion order), placeholderId, headings, and threw, which is set   *)
(* when a TypeError has been raised.                                       *)

RECURSIVE DigitsOf(_)
DigitsOf(n) ==
  (IF n < 10 THEN <<>> ELSE DigitsOf(n \div 10))
    \o <<(<<"0", "1", "2", "3", "4", "5", "6", "7", "8", "9">>)[(n % 10) + 1]>>

\* `${placeholderId}`
PlaceholderKey(n) == <<"\\uE000">> \o DigitsOf(n) \o <<"\\uE001">>

NewCtx == [map |-> <<>>, id |-> 0, headings |-> <<>>, threw |-> FALSE]

\* makePlaceholder: returns the key and the context after the call
Keyed(ctx, key, markup) ==
  [key |-> key,
   ctx |-> [ctx EXCEPT !.id = @ + 1, !.map = ObjSet(@, key, markup)]]
makePlaceholder(ctx, markup) == Keyed(ctx, PlaceholderKey(ctx.id), markup)

\* one iteration of placeholderMap.forEach in restorePlaceholders
RestoreOne(result, entry) == SplitJoin(result, entry[1], entry[2])

RECURSIVE RestoreFrom(_, _, _)
RestoreFrom(result, map, k) ==
  IF k > Len(map) THEN result
  ELSE RestoreFrom(RestoreOne(result, map[k]), map, k + 1)

restorePlaceholders(s, map) == RestoreFrom(s, map, 1)

-----------------------------------------------------------------------------
(* The inline rules of renderInline (lines 159-465).  RuleMatch(rule,s,i)  *)
(* is the match of the rule's regular expression that starts at index i    *)
(* of s: e is the index of its last character (0: no match at i), g1..g3   *)
(* are its capture groups, pre the length of the (^|[\s(]) prefix.         *)

M(e, g1, g2, g3) == [e |-> e, g1 |-> g1, g2 |-> g2, g3 |-> g3, pre |-> 0]
NoMatch == M(0, <<>>, <<>>, <<>>)
NoTitle == <<"undefined">>

\* /\\([\\`*_{}\[\]()#+\-.!|>~:=])/
EscapableChars ==
  {"\\", BT, "*", "_", "{", "}", "[", "]", "(", ")", "#", "+", "-", ".",
   "!", "|", ">", "~", ":", "="}

Ch(s, j) == IF j >= 1 /\ j <= Len(s) THEN s[j] ELSE "<eos>"

\* XX([^X]+)XX with a two-character delimiter XX: highlight, strikethrough
DelimRun(s, i, d) ==
  LET j == FirstFrom(s, i + 2, {d})
  IN IF Ch(s, i) = d /\ Ch(s, i + 1) = d /\ j > i + 2 /\ Ch(s, j + 1) = d
     THEN M(j + 1, Sub(s, i + 2, j - 1), <<>>, <<>>)
     ELSE NoMatch

\* (W)([^]+?)\1 with W a run of n stars or n underscores: the content is at
\* least one character and ends before the first later occurrence of W
Wrapped(s, i, n) ==
  LET w == [k \in 1..n |-> Ch(s, i)]
      j == FirstSeqFrom(s, i + n + 1, w)
  IN IF Ch(s, i) \in {"*", "_"} /\ SeqAt(s, i, w) /\ j # 0
     THEN M(j + n - 1, Sub(s, i + n, j - 1), <<>>, <<>>)
     ELSE NoMatch

\* (?:\s+"(.+?)")?\) at index t: <<index of the ")", title>>, <<0,_>> if none
\* q0 is the index after the white space at t, Q the indexes of the quotes
\* that can close a title opened at q0
TitledTail(s, t, q0, Q) ==
  IF q0 > t /\ Ch(s, q0) = "\"" /\ Q # {}
  THEN <<Min(Q) + 1, Sub(s, q0 + 1, Min(Q) - 1)>>
  ELSE IF Ch(s, t) = ")" THEN <<t, NoTitle>> ELSE <<0, NoTitle>>

TailFrom(s, t, q0) ==
  TitledTail(s, t, q0,
             {q \in (q0 + 2)..Len(s) : s[q] = "\"" /\ Ch(s, q + 1) = ")"
                                        /\ \A k \in (q0 + 1)..(q - 1) : s[k] # "\n"})

LinkTail(s, t) == TailFrom(s, t, t + LeadRun(Sub(s, t, Len(s)), Space))

\* \((\S+?)(?:\s+"(.+?)")?\) with the "(" at index p - 1: the shortest url
\* after which the tail matches
\* the matches of the destinations that end at an index of U, as
\* <<u, tail>>; the shortest is taken
DestOf(s, p, T) ==
  IF T = {} THEN NoMatch
  ELSE M((CHOOSE x \in T : \A y \in T : x[1] <= y[1])[2][1], <<>>,
         Sub(s, p, (CHOOSE x \in T : \A y \in T : x[1] <= y[1])[1]),
         (CHOOSE x \in T : \A y \in T : x[1] <= y[1])[2][2])

LinkDest(s, p) ==
  DestOf(s, p, {x \in {<<u, LinkTail(s, u + 1)>> : u \in p..Len(s)} :
                  /\ \A k \in p..x[1] : s[k] \notin Space
                  /\ x[2][1] # 0})

\* \[(label)\] followed by \[(id)\] (reference) or by \((url "title")\)
\* c1 is the index of the "]" of the label, c2 of the "]" of the id
RefTo(s, i, c1, c2) ==
  IF Ch(s, c1 + 1) = "[" /\ c2 # 0
  THEN M(c2, Sub(s, i + 1, c1 - 1), Sub(s, c1 + 2, c2 - 1), <<>>)
  ELSE NoMatch

\* d is the match of the destination after the "("
DestTo(s, i, c1, d) ==
  IF d.e = 0 THEN NoMatch ELSE M(d.e, Sub(s, i + 1, c1 - 1), d.g2, d.g3)

LabelTo(s, i, minLabel, ref, c1) ==
  IF Ch(s, i) = "[" /\ c1 # 0 /\ c1 - i - 1 >= minLabel
  THEN IF ref
       THEN RefTo(s, i, c1, FirstFrom(s, c1 + 2, {"]"}))
       ELSE IF Ch(s, c1 + 1) = "("
            THEN DestTo(s, i, c1, LinkDest(s, c1 + 2))
            ELSE NoMatch
  ELSE NoMatch

Bracketed(s, i, minLabel, ref) == LabelTo(s, i, minLabel, ref, FirstFrom(s, i + 1, {"]"}))

\* (^|[\s(]) at index i: the prefix lengths the alternation allows, "^" first
PrefixLens(s, i) ==
  (IF i = 1 THEN {0} ELSE {}) \cup (IF Ch(s, i) \in Space \cup {"("} THEN {1} ELSE {})

HexChars == Digits \cup {"a", "b", "c", "d", "e", "f", "A", "B", "C"}

\* the tokens that spell more than one character: the words, and "SS"
\* (two section signs)
Words ==
  {"constructor", "toc", "color", "red", "smile", "TOC", "http", "https", "ftp", "proto",
   "MD", "md", "SS"}

\* (?:https?|ftp):\/\/ at index b
SchemeAt(s, b) ==
  Ch(s, b) \in {"http", "https", "ftp"} /\ SeqAt(s, b + 1, <<":", "/", "/">>)

\* [^\s<]+[^\s<\.,:;"')\]\}!] from index b on: the index of the last
\* character of the longest match, 0 if none
\* the greatest element of K, 0 when K is empty
MaxOr0(K) == IF K = {} THEN 0 ELSE Max(K)

UrlEnd(s, b) ==
  MaxOr0({k \in b..(MinOr({j \in b..Len(s) : s[j] \in Space \cup {"<"}}, Len(s) + 1) - 1) :
            /\ s[k] \notin {".", ",", ":", ";", "\"", "'", ")", "]", "}", "!"}
            /\ (k > b \/ s[k] \in Words)})

\* [A-Za-z0-9._%+-]
LocalChars == Letters \cup Digits \cup {".", "_", "%", "+", "-"}

\* [A-Za-z0-9.-]
DomainChars == Letters \cup Digits \cup {".", "-"}

\* the number of characters of the letters s[a..b], counted up to two
TwoLetters(s, a, b) == b > a \/ (b = a /\ s[a] \in Words)

\* [A-Za-z0-9._%+-]+@[A-Za-z0-9.-]+\.[A-Za-z]{2,} from index b on: the index
\* of the last character of the longest match, 0 if none.  The domain is
\* greedy: the match takes the last "." of the run of domain characters
\* that two letters follow, and then every letter after it.
\* at is the index after the local part, D the dots of the domain that
\* two letters follow
EndAfter(s, b, at, D) ==
  IF at > b /\ Ch(s, at) = "@" /\ D # {}
  THEN Max(D) + LeadRun(Sub(s, Max(D) + 1, Len(s)), Letters)
  ELSE 0

DomainFrom(s, b, at) ==
  EndAfter(s, b, at,
           {d \in (at + 2)..(at + LeadRun(Sub(s, at + 1, Len(s)), DomainChars)) :
              /\ s[d] = "."
              /\ TwoLetters(s, d + 1, d + LeadRun(Sub(s, d + 1, Len(s)), Letters))})

EmailEnd(s, b) == DomainFrom(s, b, b + LeadRun(Sub(s, b, Len(s)), LocalChars))

\* the part of a boundary-anchored rule after its prefix of length p
AfterPrefix(rule, s, i, p) ==
  LET b == i + p
      rest == Sub(s, b + 1, Len(s))
  IN CASE rule = "autolink" ->
            \* /(^|[\s(])((?:https?|ftp):\/\/[^\s<]+[^\s<\.,:;"')\]\}!])/gi
            IF SchemeAt(s, b) /\ UrlEnd(s, b + 4) # 0
            THEN [M(UrlEnd(s, b + 4), Sub(s, b, UrlEnd(s, b + 4)), <<>>, <<>>) EXCEPT !.pre = p]
            ELSE NoMatch
       [] rule = "automail" ->
            \* /(^|[\s(])([A-Za-z0-9._%+-]+@[A-Za-z0-9.-]+\.[A-Za-z]{2,})/g
            IF EmailEnd(s, b) # 0
            THEN [M(EmailEnd(s, b), Sub(s, b, EmailEnd(s, b)), <<>>, <<>>) EXCEPT !.pre = p]
            ELSE NoMatch
       [] rule = "issue" ->
            \* /(^|[\s(])#(\d+)\b/
            LET n == LeadRun(rest, Digits)
            IN IF Ch(s, b) = "#" /\ n >= 1 /\ Ch(s, b + 1 + n) \notin WordChars
               THEN [M(b + n, Sub(s, b + 1, b + n), <<>>, <<>>) EXCEPT !.pre = p]
               ELSE NoMatch
       [] rule = "mention" ->
            \* /(^|[\s(])@([a-zA-Z0-9_][a-zA-Z0-9_-]*)/
            LET n == LeadRun(rest, WordChars \cup {"-"})
            IN IF Ch(s, b) = "@" /\ Ch(s, b + 1) \in WordChars
               THEN [M(b + n, Sub(s, b + 1, b + n), <<>>, <<>>) EXCEPT !.pre = p]
               ELSE NoMatch
       [] rule = "commit" ->
            \* /(^|[\s(])([0-9a-f]{7,40})\b/gi
            LET n == LeadRun(Sub(s, b, Len(s)), HexChars)
            IN IF n >= 7 /\ n <= 40 /\ Ch(s, b + n) \notin WordChars
               THEN [M(b + n - 1, Sub(s, b, b + n - 1), <<>>, <<>>) EXCEPT !.pre = p]
               ELSE NoMatch
       [] OTHER -> NoMatch

WithPrefix(rule, s, i) ==
  LET P == {p \in PrefixLens(s, i) : AfterPrefix(rule, s, i, p).e # 0}
  IN IF P = {} THEN NoMatch ELSE AfterPrefix(rule, s, i, Min(P))

\* is there a word boundary \b between index j - 1 and index j
WordBoundary(s, j) == (Ch(s, j - 1) \in WordChars) # (Ch(s, j) \in WordChars)

RuleMatch(rule, s, i, abbr) ==
  CASE rule = "newline" ->
         IF s[i] = "\n" THEN M(i, <<>>, <<>>, <<>>) ELSE NoMatch
    [] rule = "escape" ->
         IF s[i] = "\\" /\ Ch(s, i + 1) \in EscapableChars
         THEN M(i + 1, <<s[i + 1]>>, <<>>, <<>>) ELSE NoMatch
    [] rule = "code" ->
         \* /`([^`]+)`/
         LET j == FirstFrom(s, i + 1, {BT})
         IN IF s[i] = BT /\ j > i + 1
            THEN M(j, Sub(s, i + 1, j - 1), <<>>, <<>>) ELSE NoMatch
    [] rule = "anglelink" ->
         \* /<((?:https?|ftp):\/\/[^>]+)>/g
         LET j == FirstFrom(s, i + 5, {">"})
         IN IF s[i] = "<" /\ SchemeAt(s, i + 1) /\ j > i + 5
            THEN M(j, Sub(s, i + 1, j - 1), <<>>, <<>>) ELSE NoMatch
    [] rule = "anglemail" ->
         \* /<([A-Za-z0-9._%+-]+@[A-Za-z0-9.-]+\.[A-Za-z]{2,})>/g
         LET j == FirstFrom(s, i + 1, {">"})
         IN IF s[i] = "<" /\ j # 0 /\ EmailEnd(Sub(s, 1, j - 1), i + 1) = j - 1
            THEN M(j, Sub(s, i + 1, j - 1), <<>>, <<>>) ELSE NoMatch
    [] rule = "comment" ->
         \* /<!--[\s\S]*?-->/
         LET j == FirstSeqFrom(s, i + 4, <<"-", "-", ">">>)
         IN IF SeqAt(s, i, <<"<", "!", "-", "-">>) /\ j # 0
            THEN M(j + 2, <<>>, <<>>, <<>>) ELSE NoMatch
    [] rule = "tag" ->
         \* /<\/?[A-Za-z][^>]*>/
         LET n == IF Ch(s, i + 1) = "/" THEN i + 2 ELSE i + 1
             j == FirstFrom(s, n + 1, {">"})
         IN IF s[i] = "<" /\ Ch(s, n) \in Letters /\ j # 0
            THEN M(j, <<>>, <<>>, <<>>) ELSE NoMatch
    [] rule \in {"refimage", "image"} ->
         \* /!\[([^\]]*)\]\[([^\]]*)\]/
         \* /!\[([^\]]*)\]\((\S+?)(?:\s+"(.+?)")?\)/
         IF s[i] = "!" THEN Bracketed(s, i + 1, 0, rule = "refimage") ELSE NoMatch
    [] rule \in {"reflink", "link"} ->
         \* /\[([^\]]+)\]\[([^\]]*)\]/
         \* /\[([^\]]+)\]\((\S+?)(?:\s+"(.+?)")?\)/
         Bracketed(s, i, 1, rule = "reflink")
    [] rule = "footnote" ->
         \* /\[\^([^\]]+)\]/
         LET c == FirstFrom(s, i + 2, {"]"})
         IN IF s[i] = "[" /\ Ch(s, i + 1) = "^" /\ c > i + 2
            THEN M(c, Sub(s, i + 2, c - 1), <<>>, <<>>) ELSE NoMatch
    [] rule = "highlight" -> DelimRun(s, i, "=")
    [] rule = "bolditalic" -> Wrapped(s, i, 3)
    [] rule = "bold" -> Wrapped(s, i, 2)
    [] rule = "italic" -> Wrapped(s, i, 1)
    [] rule = "strike" -> DelimRun(s, i, "~")
    [] rule = "emoji" ->
         \* /:([a-z0-9_+-]+):/gi
         LET n == LeadRun(Sub(s, i + 1, Len(s)), Letters \cup Digits \cup {"_", "+", "-"})
         IN IF s[i] = ":" /\ n >= 1 /\ Ch(s, i + 1 + n) = ":"
            THEN M(i + 1 + n, Sub(s, i + 1, i + n), <<>>, <<>>) ELSE NoMatch
    [] rule = "color" ->
         \* /\[color=([#a-zA-Z0-9]+)\]([\s\S]+?)\[\/color\]/
         LET n == LeadRun(Sub(s, i + 3, Len(s)), Letters \cup Digits \cup {"#"})
             c == i + 3 + n
             j == FirstSeqFrom(s, c + 2, <<"[", "/", "color", "]">>)
         IN IF SeqAt(s, i, <<"[", "color", "=">>) /\ n >= 1 /\ Ch(s, c) = "]" /\ j # 0
            THEN M(j + 3, Sub(s, i + 3, c - 1), Sub(s, c + 1, j - 1), <<>>) ELSE NoMatch
    [] rule \in {"autolink", "automail", "issue", "mention", "commit"} -> WithPrefix(rule, s, i)
    [] rule = "abbr" ->
         \* new RegExp(`\\b${escapeRegex(abbr)}\\b`, "g")
         IF SeqAt(s, i, abbr) /\ WordBoundary(s, i) /\ WordBoundary(s, i + Len(abbr))
         THEN M(i + Len(abbr) - 1, <<>>, <<>>, <<>>) ELSE NoMatch
    [] OTHER -> NoMatch


-----------------------------------------------------------------------------
(* The markup each rule produces.  R(text, ctx) is the replacement text    *)
(* and the context after the callback.                                     *)

R(text, ctx) == [s |-> text, ctx |-> ctx]

\* the callback returns prefix + makePlaceholder(markup)
ProtectAfter(prefix, markup, ctx) ==
  LET p == makePlaceholder(ctx, markup) IN R(prefix \o p.key, p.ctx)

\* the callback returns makePlaceholder(markup)
Protect(markup, ctx) == ProtectAfter(<<>>, markup, ctx)

\* makePlaceholder(open + inner + close), inner rendered before the call:
\* nothing is stored when the rendering threw
ProtectAround(open, inner, close) ==
  IF inner.ctx.threw THEN inner ELSE Protect(open \o inner.s \o close, inner.ctx)

\* a TypeError: str.replace on undefined (escapeHtml, line 30)
Throw(ctx) == [ctx EXCEPT !.threw = TRUE]

BR == <<"<br class=\"block\" />">>
CODE_OPEN == <<"<code class=\"rounded bg-muted px-1 py-0.5 text-[0.8em] font-mono\">">>
A_CLASS == " target=\"_blank\" rel=\"noreferrer\" class=\"text-primary underline-offset-2 hover:underline\">"
IMG_CLASS == " class=\"inline-block max-w-full align-middle rounded-md\" />"

\* def.title ? ` title="${escapeHtmlAttr(def.title)}"` : ""
TitleAttr(title) ==
  IF title = NoTitle \/ title = <<>> THEN <<>>
  ELSE <<" title=\"">> \o escapeHtmlAttr(title) \o <<"\"">>

ImgMarkup(url, alt, title) ==
  <<"<img src=\"">> \o escapeHtmlAttr(url) \o <<"\" alt=\"">> \o escapeHtmlAttr(alt)
    \o <<"\"">> \o TitleAttr(title) \o <<IMG_CLASS>>

LinkMarkup(url, label, title) ==
  <<"<a href=\"">> \o escapeHtmlAttr(url) \o <<"\"">> \o TitleAttr(title)
    \o <<A_CLASS>> \o escapeHtml(label) \o <<"</a>">>

A_BREAK_CLASS == " target=\"_blank\" rel=\"noreferrer\" class=\"text-primary underline-offset-2 hover:underline break-all\">"

\* the anchor of an email autolink (lines 200-209 and 398-408)
MailMarkup(email) ==
  <<"<a href=\"mailto:">> \o escapeHtmlAttr(email)
    \o <<"\" class=\"text-primary underline-offset-2 hover:underline\">">>
    \o escapeHtml(email) \o <<"</a>">>

\* lines 220-233 and 253-265: key = (id || label).toLowerCase();
\* def = linkDefs[key]; if (!def) return _m; then def.url is escaped
ReferenceLookup(m, whole, linkTable, image, ctx) ==
  LET key == toLowerCase(IF m.g2 # <<>> THEN m.g2 ELSE m.g1)
      def == ObjGet(linkTable, key)
  IN CASE def.kind = "undefined" -> R(whole, ctx)
       [] def.kind = "inherited" -> R(whole, Throw(ctx))
       [] OTHER ->
            Protect(IF image THEN ImgMarkup(def.val.url, m.g1, def.val.title)
                             ELSE LinkMarkup(def.val.url, m.g1, def.val.title), ctx)

FootnoteRefMarkup(id) ==
  LET fid == escapeHtmlAttr(id)
  IN <<"<sup id=\"fnref-">> \o fid \o <<"\" class=\"text-[0.7em] align-super\"><a href=\"#fn-">>
       \o fid \o <<"\" class=\"text-primary underline-offset-2 hover:underline\">[">>
       \o escapeHtml(fid) \o <<"]</a></sup>">>

NamedColors ==
  {<<"red">>, <<"blue">>, <<"green">>, <<"yellow">>, <<"pink">>, <<"purple">>, <<"orange">>}

\* lower.match(/^#?([0-9a-f]{3}|[0-9a-f]{6})$/i): the hex digits, <<>> if none
HexColor(lower) ==
  LET h == IF lower # <<>> /\ lower[1] = "#" THEN Tail(lower) ELSE lower
  IN IF Len(h) \in {3, 6} /\ \A j \in 1..Len(h) : h[j] \in HexChars THEN h ELSE <<>>

\* the emoji as `${emoji}` prints it
EmojiText(e) ==
  IF e.kind = "own" THEN e.val
  ELSE IF e = ObjectPrototype THEN e.text
  ELSE <<"function Object() { [native code] }">>

RuleReplace(rule, m, whole, defs, ctx) ==
  CASE rule = "newline" -> Protect(BR, ctx)
    [] rule = "escape" -> Protect(escapeHtml(m.g1), ctx)
    [] rule = "code" -> Protect(CODE_OPEN \o escapeHtml(m.g1) \o <<"</code>">>, ctx)
    [] rule = "anglelink" -> Protect(LinkMarkup(m.g1, m.g1, NoTitle), ctx)
    [] rule = "anglemail" -> Protect(MailMarkup(m.g1), ctx)
    [] rule \in {"comment", "tag"} -> Protect(whole, ctx)
    [] rule = "refimage" -> ReferenceLookup(m, whole, defs.link, TRUE, ctx)
    [] rule = "image" -> Protect(ImgMarkup(unescapeMdUrl(m.g2), m.g1, m.g3), ctx)
    [] rule = "reflink" -> ReferenceLookup(m, whole, defs.link, FALSE, ctx)
    [] rule = "link" -> Protect(LinkMarkup(unescapeMdUrl(m.g2), m.g1, m.g3), ctx)
    [] rule = "footnote" -> Protect(FootnoteRefMarkup(m.g1), ctx)
    [] rule = "highlight" ->
         Protect(<<"<mark class=\"rounded bg-yellow-200/70 px-0.5 dark:bg-yellow-500/40\">">>
                   \o escapeHtml(m.g1) \o <<"</mark>">>, ctx)
    [] rule = "bolditalic" ->
         Protect(<<"<strong class=\"font-semibold\"><em class=\"italic\">">>
                   \o escapeHtml(m.g1) \o <<"</em></strong>">>, ctx)
    [] rule = "bold" ->
         Protect(<<"<strong class=\"font-semibold\">">> \o escapeHtml(m.g1) \o <<"</strong>">>, ctx)
    [] rule = "italic" ->
         Protect(<<"<em class=\"italic\">">> \o escapeHtml(m.g1) \o <<"</em>">>, ctx)
    [] rule = "strike" ->
         Protect(<<"<del class=\"opacity-70\">">> \o escapeHtml(m.g1) \o <<"</del>">>, ctx)
    [] rule = "color" ->
         LET lower == toLowerCase(m.g1)
             hex == HexColor(lower)
             open == IF lower \in NamedColors
                     THEN <<"<span class=\"">> \o escapeHtmlAttr(<<"text-">> \o lower \o <<"-500">>)
                            \o <<"\">">>
                     ELSE <<"<span style=\"color:">> \o escapeHtmlAttr(<<"#">> \o hex) \o <<"\">">>
         IN IF lower \in NamedColors \/ hex # <<>>
            THEN ProtectAround(open, renderInline(m.g2, defs, ctx), <<"</span>">>)
            ELSE R(whole, ctx)
    [] rule = "emoji" ->
         LET emoji == ObjGet(EMOJI_MAP, toLowerCase(m.g1))
         IN IF emoji.kind = "undefined" THEN R(whole, ctx)
            ELSE Protect(<<"<span class=\"md-emoji inline-block align-[-0.15em]\" role=\"img\" aria-label=\"">>
                           \o escapeHtmlAttr(m.g1) \o <<"\">">> \o EmojiText(emoji) \o <<"</span>">>, ctx)
    [] rule = "autolink" ->
         ProtectAfter(Sub(whole, 1, m.pre),
                      <<"<a href=\"">> \o escapeHtmlAttr(m.g1) \o <<"\"", A_BREAK_CLASS>>
                        \o escapeHtml(m.g1) \o <<"</a>">>, ctx)
    [] rule = "automail" -> ProtectAfter(Sub(whole, 1, m.pre), MailMarkup(m.g1), ctx)
    [] rule = "issue" ->
         ProtectAfter(Sub(whole, 1, m.pre),
                      <<"<a href=\"#">> \o escapeHtmlAttr(m.g1)
                        \o <<"\" class=\"md-issue text-blue-600 underline-offset-2 hover:underline dark:text-blue-400\">#">>
                        \o escapeHtml(m.g1) \o <<"</a>">>, ctx)
    [] rule = "mention" ->
         ProtectAfter(Sub(whole, 1, m.pre),
                      <<"<span class=\"md-mention inline-flex items-center rounded bg-primary/10 px-1 text-[0.75rem] font-medium text-primary\">@">>
                        \o escapeHtml(m.g1) \o <<"</span>">>, ctx)
    [] rule = "commit" ->
         ProtectAfter(Sub(whole, 1, m.pre),
                      <<"<code class=\"md-commit rounded bg-muted px-1 py-0.5 text-[0.75em] font-mono\">">>
                        \o escapeHtml(m.g1) \o <<"</code>">>, ctx)
    [] rule = "abbr" ->
         Protect(<<"<abbr title=\"">> \o escapeHtmlAttr(ObjGet(defs.abbr, defs.cur).val)
                   \o <<"\" class=\"cursor-help underline decoration-dotted\">">>
                   \o escapeHtml(defs.cur) \o <<"</abbr>">>, ctx)

\* acc followed by the replacement rep of a match
Emit(acc, rep) == R(acc \o rep.s, rep.ctx)

\* s.replace(/re/g, callback): the matches left to right, each search
\* resuming after the previous match; i is the scan index, r the result so
\* far and the context.  A callback that throws ends the scan (and every
\* enclosing loop below).
ApplyMatch(rule, s, i, defs, r, m) ==
  IF m.e = 0
  THEN ApplyRule(rule, s, i + 1, defs, R(Append(r.s, s[i]), r.ctx))
  ELSE ApplyRule(rule, s, m.e + 1, defs,
                 Emit(r.s, RuleReplace(rule, m, Sub(s, i, m.e), defs, r.ctx)))

ApplyRule(rule, s, i, defs, r) ==
  IF i > Len(s) \/ r.ctx.threw THEN r
  ELSE ApplyMatch(rule, s, i, defs, r, RuleMatch(rule, s, i, defs.cur))

\* the rules of renderInline in the order of lines 169-447
InlineRules ==
  <<"newline", "escape", "code", "anglelink", "anglemail", "comment", "tag",
    "refimage", "image", "reflink", "link", "footnote", "highlight",
    "bolditalic", "bold", "italic", "strike", "color", "emoji", "autolink",
    "automail", "issue", "mention", "commit">>

\* the passes of renderInline: the rules above, then one "abbr" pass for
\* every key of Object.keys(abbrDefs) (lines 450-462)
Passes(abbrs) ==
  [k \in 1..Len(InlineRules) |-> [rule |-> InlineRules[k], cur |-> <<>>]]
    \o [k \in 1..Len(abbrs) |-> [rule |-> "abbr", cur |-> abbrs[k]]]

RECURSIVE ApplyRules(_, _, _)
ApplyRules(passes, defs, r) ==
  IF passes = <<>> \/ r.ctx.threw THEN r
  ELSE ApplyRules(Tail(passes), defs,
                  ApplyRule(passes[1].rule, r.s, 1, [defs EXCEPT !.cur = passes[1].cur],
                            R(<<>>, r.ctx)))

renderInline(text, defs, ctx) ==
  IF text = <<>> THEN R(<<>>, ctx)
  ELSE ApplyRules(Passes(ObjKeys(defs.abbr)), defs, R(NormalizeNewlines(text), ctx))

\* acc + open + inner + close, inner rendered before
Wrap(acc, open, inner, close) == R(acc \o open \o inner.s \o close, inner.ctx)

\* r followed by open + renderInline(text) + close
RenderInto(r, open, text, close, defs) ==
  Wrap(r.s, open, renderInline(text, defs, r.ctx), close)

-----------------------------------------------------------------------------
(* Tables: isTableDivider and parseTableAt (lines 467-551).                *)

\* line.trim().replace(/^\|/, "").replace(/\|$/, "").split("|").map(trim)
splitRow(line) ==
  LET t0 == Trim(line)
      t1 == IF t0 # <<>> /\ t0[1] = "|" THEN Tail(t0) ELSE t0
      t2 == IF t1 # <<>> /\ t1[Len(t1)] = "|" THEN Sub(t1, 1, Len(t1) - 1) ELSE t1
      cells == SplitOn(t2, "|")
  IN [k \in 1..Len(cells) |-> Trim(cells[k])]

\* /^:?-{3,}:?$/
IsDividerCell(cell) ==
  LET a == IF cell # <<>> /\ cell[1] = ":" THEN Tail(cell) ELSE cell
      b == IF a # <<>> /\ a[Len(a)] = ":" THEN Sub(a, 1, Len(a) - 1) ELSE a
  IN Len(b) >= 3 /\ \A j \in 1..Len(b) : b[j] = "-"

isTableDivider(line) ==
  LET trimmed == Trim(line)
      cells == splitRow(line)
  IN /\ trimmed # <<>>
     /\ "|" \in {trimmed[j] : j \in 1..Len(trimmed)}
     /\ \A k \in 1..Len(cells) : IsDividerCell(cells[k])

\* the alignments with left and right exchanged
AlignOfMirrored(c) ==
  LET left == c # <<>> /\ c[1] = ":"
      right == c # <<>> /\ c[Len(c)] = ":"
  IN IF left /\ right THEN "center"
     ELSE IF right THEN "left"
     ELSE IF left THEN "right"
     ELSE ""

\* lines 498-505
AlignOf(c) ==
  LET left == c # <<>> /\ c[1] = ":"
      right == c # <<>> /\ c[Len(c)] = ":"
  IN IF left /\ right THEN "center"
     ELSE IF right THEN "right"
     ELSE IF left THEN "left"
     ELSE ""

\* aligns[idx] || ""
AlignAt(aligns, idx) == IF idx <= Len(aligns) THEN aligns[idx] ELSE ""

TH_CLASS == " class=\"border-b border-border/60 px-2 py-1 text-left text-[0.75rem] font-medium text-muted-foreground\">"
TD_CLASS == " class=\"border-b border-border/40 px-2 py-1 align-top\">"
STYLE_ALIGN == " style=\"text-align:"

\* r followed by the tokens toks
Then(r, toks) == R(r.s \o toks, r.ctx)

\* the markup r as the block that ends before line next
Block(r, next) == [html |-> r.s, next |-> next, ctx |-> r.ctx]

\* `<th${style} class="...">`, `<td${style} class="...">`
CellOpen(th, align) ==
  <<IF th THEN "<th" ELSE "<td">>
    \o (IF align # "" THEN <<STYLE_ALIGN, align, "\"">> ELSE <<>>)
    \o <<IF th THEN TH_CLASS ELSE TD_CLASS>>

\* .map((h, idx) => ...) over the cells from idx on, appended to r
RECURSIVE RenderCells(_, _, _, _, _, _)
RenderCells(cells, idx, aligns, th, defs, r) ==
  IF idx > Len(cells) \/ r.ctx.threw THEN r
  ELSE RenderCells(cells, idx + 1, aligns, th, defs,
                   RenderInto(r, CellOpen(th, AlignAt(aligns, idx)), cells[idx],
                              <<IF th THEN "</th>" ELSE "</td>">>, defs))

\* rows.map((row) => "<tr>" + ... + "</tr>") over the rows from k on
RECURSIVE RenderRows(_, _, _, _, _)
RenderRows(rows, k, aligns, defs, r) ==
  IF k > Len(rows) \/ r.ctx.threw THEN r
  ELSE RenderRows(rows, k + 1, aligns, defs,
                  Then(RenderCells(rows[k], 1, aligns, FALSE, defs, Then(r, <<"<tr>">>)),
                       <<"</tr>">>))

\* the index after the last body row (lines 508-514)
TableEnd(lines, start) ==
  LET J == {j \in (start + 2)..Len(lines) :
              IsBlank(lines[j]) \/ "|" \notin {lines[j][k] : k \in 1..Len(lines[j])}}
  IN IF J = {} THEN Len(lines) + 1 ELSE Min(J)

parseTableAt(lines, start, defs, ctx) ==
  LET headers == splitRow(lines[start])
      alignCells == splitRow(lines[start + 1])
      aligns == [k \in 1..Len(alignCells) |-> AlignOf(alignCells[k])]
      next == TableEnd(lines, start)
      rows == [r \in 1..(next - start - 2) |-> splitRow(lines[start + 1 + r])]
      open == <<"<table class=\"my-3 w-full border-collapse overflow-hidden rounded-md border border-border/60 text-xs\">",
                "<thead class=\"bg-muted/40\"><tr>">>
  IN Block(Then(RenderRows(rows, 1, aligns, defs,
                           Then(RenderCells(headers, 1, aligns, TRUE, defs, R(open, ctx)),
                                <<"</tr></thead>", "<tbody>">>)),
                <<"</tbody>", "</table>">>),
           next)

-----------------------------------------------------------------------------
(* Lists: parseListAt (lines 553-636).                                     *)

\* /^(\s*)([*+-]|\d+\.)\s+(.*)$/: [ok, indent, ordered, content]
ItemMatch(line) ==
  LET indent == LeadRun(line, Space)
      rest == Sub(line, indent + 1, Len(line))
      nd == LeadRun(rest, Digits)
      mlen == IF rest # <<>> /\ rest[1] \in {"*", "+", "-"} THEN 1
              ELSE IF nd >= 1 /\ Ch(rest, nd + 1) = "." THEN nd + 1
              ELSE 0
      after == Sub(rest, mlen + 1, Len(rest))
      ws == LeadRun(after, Space)
  IN [ok |-> mlen > 0 /\ ws >= 1,
      indent |-> indent,
      ordered |-> mlen > 1,
      content |-> Sub(after, ws + 1, Len(after))]

\* the continuation lines of an item (lines 595-609): <<lines, next index>>
RECURSIVE Continuation(_, _, _, _)
Continuation(lines, i, baseIndent, acc) ==
  IF i > Len(lines) THEN <<acc, i>>
  ELSE IF IsBlank(lines[i]) THEN <<acc, i + 1>>
  ELSE IF ItemMatch(lines[i]).ok THEN <<acc, i>>
  ELSE LET strip == Min({LeadRun(lines[i], Space), baseIndent + 2})
       IN Continuation(lines, i + 1, baseIndent,
                       Append(acc, Sub(lines[i], strip + 1, Len(lines[i]))))

\* /^\[( |x|X)\]\s+(.*)$/: [ok, checked, rest]
TaskMatch(first) ==
  LET ws == LeadRun(Sub(first, 4, Len(first)), Space)
  IN [ok |-> Ch(first, 1) = "[" /\ Ch(first, 2) \in {" ", "x", "X"}
              /\ Ch(first, 3) = "]" /\ ws >= 1,
      checked |-> Ch(first, 2) \in {"x", "X"},
      rest |-> Sub(first, 4 + ws, Len(first))]

LI_OPEN == "<li class=\"ml-1\">"
UL_OPEN == "<ul class=\"list-disc list-inside ml-4 my-2 space-y-1\">"
OL_OPEN == "<ol class=\"list-decimal list-inside ml-4 my-2 space-y-1\">"

\* lines 611-627: the item's markup
ItemMarkup(itemLines, defs, ctx) ==
  LET task == TaskMatch(itemLines[1])
      prefix == IF task.ok
                THEN <<"<input type=\"checkbox\" disabled">>
                       \o (IF task.checked THEN <<" checked">> ELSE <<>>)
                       \o <<" class=\"mr-1 h-3 w-3 rounded border border-border align-middle accent-primary\" /> ">>
                ELSE <<>>
      bodyText == IF task.ok THEN Join(<<task.rest>> \o Tail(itemLines), <<"\n">>)
                  ELSE Join(itemLines, <<"\n">>)
  IN RenderInto(R(<<>>, ctx), <<LI_OPEN>> \o prefix, Trim(bodyText), <<"</li>">>, defs)

\* items[items.length - 1] += nested.html; i = nested.next (lines 580-585)
Nest(st, nested) ==
  [items |-> IF Len(st.items) > 0
             THEN [st.items EXCEPT ![Len(st.items)] = @ \o nested.html]
             ELSE st.items,
   next |-> nested.next,
   ctx |-> nested.ctx]

\* items.push(item) with i after the item's continuation lines
PushItem(st, next, item) ==
  [items |-> Append(st.items, item.s), next |-> next, ctx |-> item.ctx]

\* a same-level item (lines 588-627): cont is its lines and the next index
SameLevelItem(st, cont, defs) == PushItem(st, cont[2], ItemMarkup(cont[1], defs, st.ctx))

\* the while loop of lines 569-628; st is [items, next, ctx], m the match
\* of itemRe on the line at st.next
RECURSIVE ListLoop(_, _, _, _)
ListStep(lines, baseIndent, defs, st, m) ==
  IF IsBlank(lines[st.next]) \/ ~m.ok \/ m.indent < baseIndent THEN st
  ELSE IF m.indent > baseIndent
  THEN ListLoop(lines, baseIndent, defs,
                Nest(st, parseListAt(lines, st.next, defs, st.ctx)))
  ELSE ListLoop(lines, baseIndent, defs,
                SameLevelItem(st, Continuation(lines, st.next + 1, baseIndent, <<m.content>>),
                              defs))

ListLoop(lines, baseIndent, defs, st) ==
  IF st.next > Len(lines) \/ st.ctx.threw THEN st
  ELSE ListStep(lines, baseIndent, defs, st, ItemMatch(lines[st.next]))

\* lines 630-635 with the tag of an unordered list whatever the first marker
ListBlockUnordered(ordered, loop) ==
  [html |-> <<UL_OPEN>> \o Flatten(loop.items) \o <<"</ul>">>,
   next |-> loop.next,
   ctx |-> loop.ctx]

\* lines 630-635
ListBlock(ordered, loop) ==
  [html |-> <<IF ordered THEN OL_OPEN ELSE UL_OPEN>> \o Flatten(loop.items)
              \o <<IF ordered THEN "</ol>" ELSE "</ul>">>,
   next |-> loop.next,
   ctx |-> loop.ctx]

\* m is the match of itemRe on the line at start
ListFrom(lines, start, defs, ctx, m) ==
  IF ~m.ok THEN [html |-> <<>>, next |-> start + 1, ctx |-> ctx]
  ELSE ListBlock(m.ordered,
                 ListLoop(lines, m.indent, defs, [items |-> <<>>, next |-> start, ctx |-> ctx]))

parseListAt(lines, start, defs, ctx) ==
  ListFrom(lines, start, defs, ctx, ItemMatch(lines[start]))

-----------------------------------------------------------------------------
(* The block parser: parseBlocks (lines 660-856).                          *)

\* /^(\s*)(`{3,}|~{3,})(.*)$/: [ok, fence, info]
FenceMatch(line) ==
  LET ws == LeadRun(line, Space)
      rest == Sub(line, ws + 1, Len(line))
      n == IF rest # <<>> /\ rest[1] \in {BT, "~"} THEN LeadRun(rest, {rest[1]}) ELSE 0
  IN [ok |-> n >= 3, fence |-> Sub(rest, 1, n), info |-> Sub(rest, n + 1, Len(rest))]

\* /^( {4,}|\t)/
IsIndented(line) ==
  LeadRun(line, {" "}) >= 4 \/ Ch(line, 1) = "\t"

\* .replace(/^( {4}|\t)/, "")
Dedent(line) ==
  IF LeadRun(line, {" "}) >= 4 THEN Sub(line, 5, Len(line))
  ELSE IF Ch(line, 1) = "\t" THEN Tail(line) ELSE line

\* /^(\s{0,3})(#{1,6})\s+(.*)$/: [ok, level, text]
HeadingMatch(line) ==
  LET ws == LeadRun(line, Space)
      rest == Sub(line, ws + 1, Len(line))
      h == LeadRun(rest, {"#"})
      after == Sub(rest, h + 1, Len(rest))
      gap == LeadRun(after, Space)
  IN [ok |-> ws <= 3 /\ h >= 1 /\ h <= 6 /\ gap >= 1,
      level |-> h,
      text |-> Sub(after, gap + 1, Len(after))]

\* textContent.replace(/\s+#+\s*$/, "") on a trimmed text
StripClosingHashes(text) ==
  LET J == {j \in 1..Len(text) : text[j] # "#"}
      last == IF J = {} THEN 0 ELSE Max(J)
      K == {k \in 1..last : text[k] \notin Space}
      keep == IF K = {} THEN 0 ELSE Max(K)
  IN IF last >= 1 /\ last < Len(text) /\ text[last] \in Space
     THEN Sub(text, 1, keep) ELSE text

\* lines 642-658
headingClass(level) ==
  CASE level = 1 -> "mt-6 mb-3 scroll-m-20 text-4xl font-extrabold tracking-tight lg:text-5xl"
    [] level = 2 -> "mt-6 mb-3 scroll-m-20 border-b pb-2 text-3xl font-semibold tracking-tight first:mt-0"
    [] level = 3 -> "mt-4 mb-2 scroll-m-20 text-2xl font-semibold tracking-tight"
    [] level = 4 -> "mt-4 mb-2 scroll-m-20 text-xl font-semibold tracking-tight"
    [] level = 5 -> "mt-3 mb-2 scroll-m-20 text-lg font-semibold tracking-tight"
    [] OTHER -> "mt-3 mb-2 scroll-m-20 text-base font-semibold tracking-tight text-muted-foreground"

\* /^(\s{0,3})([-*_])(?:\s*\2){2,}\s*$/
IsRule(line) ==
  LET ws == LeadRun(line, Space)
      marks == SelectSeq(line, LAMBDA c : c \notin Space)
  IN /\ ws <= 3
     /\ Len(marks) >= 3
     /\ marks[1] \in {"-", "*", "_"}
     /\ \A j \in 1..Len(marks) : marks[j] = marks[1]

\* /^\s*>/
IsQuote(line) == Ch(line, LeadRun(line, Space) + 1) = ">"

\* .replace(/^\s*> ?/, "")
Unquote(line) ==
  LET g == LeadRun(line, Space) + 1
  IN IF Ch(line, g + 1) = " " THEN Sub(line, g + 2, Len(line)) ELSE Sub(line, g + 1, Len(line))

\* /^\s*\[(toc|TOC)\]\s*$/
IsTocLine(line) == Trim(line) \in {<<"[", "toc", "]">>, <<"[", "TOC", "]">>}

\* line.includes("|") && i + 1 < lines.length && isTableDivider(lines[i + 1])
IsTableStart(lines, i) ==
  /\ "|" \in {lines[i][k] : k \in 1..Len(lines[i])}
  /\ i + 1 <= Len(lines)
  /\ isTableDivider(lines[i + 1])

\* /^\s*([*+-]|\d+\.)\s+/
IsListStart(line) == ItemMatch(line).ok

\* /^\s*<!--/
IsCommentStart(line) == SeqAt(line, LeadRun(line, Space) + 1, <<"<", "!", "-", "-">>)

\* /^\s*</
IsHtmlStart(line) == Ch(line, LeadRun(line, Space) + 1) = "<"

\* /^(.+?)\s*:\s+(.+)$/: [ok, term, def] with term and def trimmed
DefListMatch(line) ==
  LET C == {c \in 2..(Len(line) - 2) : line[c] = ":" /\ line[c + 1] \in Space}
      c == IF C = {} THEN 0 ELSE Min(C)
  IN [ok |-> C # {},
      term |-> Trim(Sub(line, 1, c - 1)),
      def |-> Trim(Sub(line, c + 1, Len(line)))]

\* the index after the run of lines from i on that all satisfy P
RunEnd(lines, i, P(_)) ==
  LET J == {j \in i..Len(lines) : ~P(lines[j])}
  IN IF J = {} THEN Len(lines) + 1 ELSE Min(J)

P_OPEN == "<p class=\"my-1 text-sm leading-relaxed\">"
BLOCKQUOTE_OPEN == "<blockquote class=\"my-2 border-l-2 border-muted-foreground/30 pl-3 text-[0.85rem] text-muted-foreground space-y-1\">"
PRE_OPEN == "<pre class=\"my-2 overflow-x-auto rounded-md bg-muted/60 p-2 text-xs font-mono\">"

\* info.split(/\s+/)[0] || "" on the trimmed info string
FirstWord(info) ==
  LET t0 == Trim(info)
      J == {j \in 1..Len(t0) : t0[j] \in Space}
  IN Sub(t0, 1, IF J = {} THEN Len(t0) ELSE Min(J) - 1)

\* the lines lo..hi-1 of lines, each passed through F, as an array
MapLines(lines, lo, hi, F(_)) == [k \in 1..(hi - lo) |-> F(lines[lo + k - 1])]
Same(l) == l

\* the test of lines 826-839 that ends a paragraph
EndsParagraph(lines, i) ==
  LET l == lines[i]
  IN \/ IsBlank(l)
     \/ HeadingMatch(l).ok
     \/ IsRule(l)
     \/ IsQuote(l)
     \/ IsListStart(l)
     \/ IsTableStart(lines, i)
     \/ FenceMatch(l).ok
     \/ IsIndented(l)
     \/ IsHtmlStart(l)
     \/ DefListMatch(l).ok
     \/ IsTocLine(l)

RECURSIVE ParagraphEnd(_, _)
ParagraphEnd(lines, i) ==
  IF i > Len(lines) \/ EndsParagraph(lines, i) THEN i ELSE ParagraphEnd(lines, i + 1)

\* one <dt>..</dd> pair (lines 806-813) appended to r; d is the match
DefItem(r, d, defs) ==
  RenderInto(RenderInto(r, <<"<dt class=\"font-medium text-xs text-muted-foreground uppercase tracking-wide\">">>,
                        d.term, <<>>, defs),
             <<"</dt><dd class=\"ml-3 text-sm\">">>, d.def, <<"</dd>">>, defs)

\* the while loop of lines 804-815 from line i on, appending to r
RECURSIVE DefItems(_, _, _, _)
DefItems(lines, i, defs, r) ==
  IF i > Len(lines) \/ r.ctx.threw \/ ~DefListMatch(lines[i]).ok THEN Block(r, i)
  ELSE DefItems(lines, i + 1, defs, DefItem(r, DefListMatch(lines[i]), defs))

\* the end of an HTML comment block (lines 777-784): the index after the
\* first line from i on that includes "-->", or after the last line
CommentEnd(lines, i) ==
  LET J == {j \in i..Len(lines) : Includes(lines[j], <<"-", "-", ">">>)}
  IN IF J = {} THEN Len(lines) + 1 ELSE Min(J) + 1

\* lines 675-691 with a block that any later fence line closes, whatever
\* its fence characters
FencedBlockAnyFence(lines, i, ctx) ==
  LET f == FenceMatch(lines[i])
      close == RunEnd(lines, i + 1, LAMBDA l : ~FenceMatch(l).ok)
      lang == FirstWord(f.info)
      langClass == IF lang # <<>> THEN <<"language-">> \o escapeHtmlAttr(lang) ELSE <<>>
  IN Block(R(<<PRE_OPEN, "<code class=\"">> \o langClass \o <<"\">">>
               \o escapeHtml(Join(MapLines(lines, i + 1, close, Same), <<"\n">>))
               \o <<"</code></pre>">>, ctx),
           IF close <= Len(lines) THEN close + 1 ELSE close)

\* the fenced code block that opens at line i (lines 675-691)
FencedBlock(lines, i, ctx) ==
  LET f == FenceMatch(lines[i])
      close == RunEnd(lines, i + 1, LAMBDA l : ~SeqAt(Trim(l), 1, f.fence))
      lang == FirstWord(f.info)
      langClass == IF lang # <<>> THEN <<"language-">> \o escapeHtmlAttr(lang) ELSE <<>>
  IN Block(R(<<PRE_OPEN, "<code class=\"">> \o langClass \o <<"\">">>
               \o escapeHtml(Join(MapLines(lines, i + 1, close, Same), <<"\n">>))
               \o <<"</code></pre>">>, ctx),
           IF close <= Len(lines) THEN close + 1 ELSE close)

\* headings.push({ level, text, id }) (line 716), not reached when
\* renderInline threw on the line before
PushHeading(r, h) ==
  IF r.ctx.threw THEN r ELSE R(r.s, [r.ctx EXCEPT !.headings = Append(@, h)])

\* the heading at line i (lines 711-722)
HeadingBlock(line, defs, ctx) ==
  LET m == HeadingMatch(line)
      textContent == StripClosingHashes(Trim(m.text))
      id == slugify(textContent)
      hN == <<"1", "2", "3", "4", "5", "6">>[m.level]
  IN PushHeading(RenderInto(R(<<>>, ctx),
                            <<"<h", hN, " id=\"">> \o id \o <<"\" class=\"", headingClass(m.level), "\">">>,
                            textContent, <<"</h", hN, ">">>, defs),
                 [level |-> m.level, text |-> textContent, id |-> id])

\* out.push(b.html); i = b.next
Push(b) == [out |-> <<b.html>>, next |-> b.next, ctx |-> b.ctx]

\* b with the tokens toks after its markup
Close(b, toks) == [b EXCEPT !.html = @ \o toks]

\* nothing pushed; i = next
Skip(next, ctx) == [out |-> <<>>, next |-> next, ctx |-> ctx]

\* the paragraph of lines 823-852 that starts at line i and ends before e
ParagraphBlock(lines, i, e, defs, ctx) ==
  LET paraText == Trim(Join(MapLines(lines, i, e, Same), <<"\n">>))
  IN IF paraText # <<>>
     THEN Push(Block(RenderInto(R(<<>>, ctx), <<P_OPEN>>, paraText, <<"</p>">>, defs), e))
     ELSE Skip(e, ctx)

\* one iteration of the while loop of parseBlocks on line i:
\* [out: the fragments pushed, next, ctx]
BlockAt(lines, i, defs, ctx) ==
  LET line == lines[i]
  IN IF IsBlank(line) THEN Skip(i + 1, ctx)
     ELSE IF FenceMatch(line).ok THEN Push(FencedBlock(lines, i, ctx))
     ELSE IF IsIndented(line)
     THEN LET e == RunEnd(lines, i, IsIndented)
          IN Push(Block(R(<<PRE_OPEN, "<code>">>
                            \o escapeHtml(Join(MapLines(lines, i, e, Dedent), <<"\n">>))
                            \o <<"</code></pre>">>, ctx), e))
     ELSE IF HeadingMatch(line).ok
     THEN Push(Block(HeadingBlock(line, defs, ctx), i + 1))
     ELSE IF IsRule(line)
     THEN Push(Block(R(<<"<hr class=\"my-3 border-border/60\" />">>, ctx), i + 1))
     ELSE IF IsQuote(line)
     THEN LET e == RunEnd(lines, i, IsQuote)
          IN Push(Block(Wrap(<<>>,
                             <<BLOCKQUOTE_OPEN>>,
                             parseBlocks(Join(MapLines(lines, i, e, Unquote), <<"\n">>), defs, ctx),
                             <<"</blockquote>">>), e))
     ELSE IF IsTocLine(line) THEN Push(Block(R(TOC_PLACEHOLDER, ctx), i + 1))
     ELSE IF IsTableStart(lines, i) THEN Push(parseTableAt(lines, i, defs, ctx))
     ELSE IF IsListStart(line) THEN Push(parseListAt(lines, i, defs, ctx))
     ELSE IF IsCommentStart(line)
     THEN LET e == CommentEnd(lines, i)
          IN Push(Block(R(Join(MapLines(lines, i, e, Same), <<"\n">>), ctx), e))
     ELSE IF IsHtmlStart(line)
     THEN LET e == RunEnd(lines, i, LAMBDA l : ~IsBlank(l))
          IN Push(Block(R(Join(MapLines(lines, i, e, Same), <<"\n">>), ctx), e))
     ELSE IF DefListMatch(line).ok
     THEN Push(Close(DefItems(lines, i, defs, R(<<"<dl class=\"my-2 space-y-1\">">>, ctx)),
                     <<"</dl>">>))
     ELSE ParagraphBlock(lines, i, ParagraphEnd(lines, i + 1), defs, ctx)

\* the fragments of b after those of st
Collect(st, b) == [out |-> st.out \o b.out, next |-> b.next, ctx |-> b.ctx]

\* the while loop of lines 665-853; st is [out, next, ctx]
RECURSIVE BlockLoop(_, _, _)
BlockLoop(lines, defs, st) ==
  IF st.next > Len(lines) \/ st.ctx.threw THEN st
  ELSE BlockLoop(lines, defs, Collect(st, BlockAt(lines, st.next, defs, st.ctx)))

\* out.join("\n") (line 855)
Joined(st) == R(IF st.ctx.threw THEN <<>> ELSE Join(st.out, <<"\n">>), st.ctx)

parseBlocks(text, defs, ctx) ==
  Joined(BlockLoop(SplitOn(NormalizeNewlines(text), "\n"), defs, Skip(1, ctx)))

-----------------------------------------------------------------------------
(* The definition extractor: extractDefinitions (lines 71-132).            *)

\* src.replace(/\r\n?/g, "\n").split("\n")
SourceLines(text) == SplitOn(NormalizeNewlines(text), "\n")

\* \[([^\]]+)\]: at index i of the line: the index of the ":" (0 if none)
ColonAfter(line, i, c) ==
  IF Ch(line, i) = "[" /\ c > i + 1 /\ Ch(line, c + 1) = ":" THEN c + 1 ELSE 0
LabelEnd(line, i) == ColonAfter(line, i, FirstFrom(line, i + 1, {"]"}))

\* /^\[\^([^\]]+)\]:\s*(.*)$/: [ok, id, text]
FootnoteDefMatch(line) ==
  LET e == LabelEnd(line, 1)
      after == Sub(line, e + 1, Len(line))
  IN [ok |-> e > 4 /\ Ch(line, 2) = "^",
      id |-> Sub(line, 3, e - 2),
      text |-> Sub(after, LeadRun(after, Space) + 1, Len(after))]

\* the footnote loop of lines 89-100 with a cursor that falls back to the
\* definition line
FootnoteBodyStuck(lines, i, text) == <<text, i - 1>>

\* the lines after a footnote definition that belong to it (lines 89-100):
\* <<text, next index>>
RECURSIVE FootnoteBody(_, _, _)
FootnoteBody(lines, i, text) ==
  IF i > Len(lines) THEN <<text, i>>
  ELSE IF IsIndented(lines[i])
  THEN FootnoteBody(lines, i + 1, text \o <<"\n">> \o Dedent(lines[i]))
  ELSE IF IsBlank(lines[i])
  THEN FootnoteBody(lines, i + 1, text \o <<"\n">>)
  ELSE <<text, i>>

\* /^\*\[([^\]]+)\]:\s+(.+)$/: [ok, term, text]
AbbrDefMatch(line) ==
  LET e == LabelEnd(line, 2)
      after == Sub(line, e + 1, Len(line))
      ws == LeadRun(after, Space)
  IN [ok |-> Ch(line, 1) = "*" /\ e # 0 /\ ws >= 1 /\ Len(after) >= 2,
      term |-> Sub(line, 3, e - 2),
      text |-> IF ws < Len(after) THEN Sub(after, ws + 1, Len(after))
               ELSE Sub(after, Len(after), Len(after))]

\* /^\[([^\]]+)\]:\s*(\S+)(?:\s+"(.+?)")?\s*$/: [ok, label, url, title]
LinkDefMatch(line) ==
  LET e == LabelEnd(line, 1)
      after == Sub(line, e + 1, Len(line))
      ws == LeadRun(after, Space)
      rest == Sub(after, ws + 1, Len(after))
      J == {j \in 1..Len(rest) : rest[j] \in Space}
      ulen == IF J = {} THEN Len(rest) ELSE Min(J) - 1
      tail == Trim(Sub(rest, ulen + 1, Len(rest)))
      titled == /\ Len(tail) >= 3
                /\ tail[1] = "\""
                /\ tail[Len(tail)] = "\""
  IN [ok |-> e # 0 /\ ulen >= 1 /\ (tail = <<>> \/ titled),
      label |-> Sub(line, 2, e - 2),
      url |-> Sub(rest, 1, ulen),
      title |-> IF titled THEN Sub(tail, 2, Len(tail) - 1) ELSE NoTitle]

\* one iteration of the while loop of lines 79-124 on line i; st holds
\* remaining, linkDefs, footnoteDefs, abbrDefs and the next index i
ExtractLine(lines, i, st) ==
  LET line == lines[i]
      fn == FootnoteDefMatch(line)
      ab == AbbrDefMatch(line)
      ld == LinkDefMatch(line)
  IN IF fn.ok
     THEN LET body == FootnoteBody(lines, i + 1, fn.text)
          IN [st EXCEPT !.footnoteDefs = ObjSetString(@, fn.id, body[1]), !.i = body[2]]
     ELSE IF ab.ok
     THEN [st EXCEPT !.abbrDefs = ObjSetString(@, ab.term, ab.text), !.i = i + 1]
     ELSE IF ld.ok
     THEN [st EXCEPT !.linkDefs = ObjSet(@, toLowerCase(ld.label),
                                         [url |-> ld.url, title |-> ld.title]),
                     !.i = i + 1]
     ELSE [st EXCEPT !.remaining = Append(@, line), !.i = i + 1]

RECURSIVE ExtractLoop(_, _)
ExtractLoop(lines, st) ==
  IF st.i > Len(lines) THEN st ELSE ExtractLoop(lines, ExtractLine(lines, st.i, st))

extractDefinitions(text) ==
  LET st == ExtractLoop(SourceLines(text),
              [remaining |-> <<>>, linkDefs |-> <<>>, footnoteDefs |-> <<>>,
               abbrDefs |-> <<>>, i |-> 1])
  IN [cleaned |-> Join(st.remaining, <<"\n">>),
      linkDefs |-> st.linkDefs,
      footnoteDefs |-> st.footnoteDefs,
      abbrDefs |-> st.abbrDefs]

-----------------------------------------------------------------------------
(* The post-processor of renderMarkdown (lines 858-893).                   *)

\* the tables as they stand before extractDefinitions has run
DefsBeforeExtraction(links, abbrs) == [link |-> <<>>, abbr |-> <<>>, cur |-> <<>>]

\* the tables renderInline reads: the closure over linkDefs and abbrDefs
\* of line 138; cur is the abbreviation of the current forEach iteration
Defs(links, abbrs) == [link |-> links, abbr |-> abbrs, cur |-> <<>>]

TOC_HREF == "px\"><a href=\"#"
TOC_LINK_CLASS == "\" class=\"block text-xs text-muted-foreground hover:text-foreground\">"

\* lines 862-872
RECURSIVE TocItems(_)
TocItems(hs) ==
  IF hs = <<>> THEN <<>>
  ELSE <<"<div style=\"margin-left:">> \o DigitsOf((hs[1].level - 1) * 12)
         \o <<TOC_HREF>> \o escapeHtmlAttr(hs[1].id) \o <<TOC_LINK_CLASS>>
         \o escapeHtml(hs[1].text) \o <<"</a></div>">> \o TocItems(Tail(hs))

NAV_OPEN == "<nav class=\"md-toc mb-3 rounded-md border bg-muted/40 p-2 text-xs space-y-1\">"

TocHtml(hs) == <<NAV_OPEN>> \o TocItems(hs) \o <<"</nav>">>

\* lines 861-874
ReplaceToc(markup, hs) ==
  IF Includes(markup, TOC_PLACEHOLDER)
  THEN SplitJoin(markup, TOC_PLACEHOLDER, TocHtml(hs))
  ELSE markup

\* one <li> entry of lines 881-885 after acc: fid is the escaped id and
\* body the result of parseBlocks on the definition
FootnoteItem(acc, fid, body) ==
  R(acc \o <<"<li id=\"fn-">> \o fid \o <<"\" class=\"ml-1\">">> \o body.s
        \o <<" <a href=\"#fnref-">> \o fid
        \o <<"\" class=\"footnote-backref text-primary underline-offset-2 hover:underline\">", "BACKREF", "</a></li>">>,
    body.ctx)

\* lines 880-886: the <li> entries for the footnote ids from k on, after r
RECURSIVE FootnoteItems(_, _, _, _, _)
FootnoteItems(ids, k, notes, defs, r) ==
  IF k > Len(ids) \/ r.ctx.threw THEN r
  ELSE FootnoteItems(ids, k + 1, notes, defs,
                     FootnoteItem(r.s, escapeHtmlAttr(ids[k]),
                                  parseBlocks(ObjGet(notes, ids[k]).val, defs, r.ctx)))

\* line 878
FOOTNOTES_OPEN == "<section class=\"footnotes mt-4 space-y-1 text-xs text-muted-foreground\"><hr class=\"my-2 border-border/60\" /><ol class=\"list-decimal list-inside ml-4 space-y-1\">"

\* lines 877-890: the markup with the footnotes section appended
AppendFootnotes(markup, notes, defs, ctx) ==
  IF Len(ObjKeys(notes)) > 0
  THEN Then(FootnoteItems(ObjKeys(notes), 1, notes, defs,
                          R(markup \o <<"\n", FOOTNOTES_OPEN>>,
                            ctx)),
            <<"</ol></section>">>)
  ELSE R(markup, ctx)

\* line 892: the value returned, <<"TypeError">> when the call threw
Returned(notes) ==
  IF notes.ctx.threw THEN <<"TypeError">>
  ELSE restorePlaceholders(notes.s, notes.ctx.map)

\* lines 858-892 on the result body of parseBlocks(cleaned)
PostProcess(body, notes, defs) ==
  IF body.ctx.threw THEN <<"TypeError">>
  ELSE Returned(AppendFootnotes(ReplaceToc(body.s, body.ctx.headings), notes, defs, body.ctx))

\* lines 138-892 on the result d of extractDefinitions
RenderExtracted(d) ==
  PostProcess(parseBlocks(d.cleaned, Defs(d.linkDefs, d.abbrDefs), NewCtx),
              d.footnoteDefs, Defs(d.linkDefs, d.abbrDefs))

\* renderMarkdown as a function of its input: <<"TypeError">> when it throws
renderMarkdown(text) == RenderExtracted(extractDefinitions(text))

-----------------------------------------------------------------------------
(* One call of renderMarkdown as a state machine.  pc is the position in   *)
(* the call: "extract" (the loop of extractDefinitions), "toc" (after      *)
(* parseBlocks(cleaned), line 858), "footnotes" (line 876), "restore"      *)
(* (the forEach of restorePlaceholders), "done" (returned) and "threw"     *)
(* (a TypeError left the call).  calls counts the calls that ended before  *)
(* this one.                                                               *)

InitWith(inputs) ==
  /\ src \in inputs
  /\ pc = "extract"
  /\ lineNo = 1
  /\ remaining = <<>>
  /\ linkDefs = <<>>
  /\ footnoteDefs = <<>>
  /\ abbrDefs = <<>>
  /\ html = <<>>
  /\ placeholderMap = <<>>
  /\ placeholderId = 0
  /\ headings = <<>>
  /\ restoreIdx = 0
  /\ calls = 0

CurCtx == [map |-> placeholderMap, id |-> placeholderId, headings |-> headings, threw |-> FALSE]

\* one iteration of the loop of extractDefinitions
ExtractStep ==
  /\ pc = "extract"
  /\ lineNo <= Len(SourceLines(src))
  /\ \E st \in {ExtractLine(SourceLines(src), lineNo,
                            [remaining |-> remaining, linkDefs |-> linkDefs,
                             footnoteDefs |-> footnoteDefs, abbrDefs |-> abbrDefs,
                             i |-> lineNo])} :
        /\ lineNo' = st.i
        /\ remaining' = st.remaining
        /\ linkDefs' = st.linkDefs
        /\ footnoteDefs' = st.footnoteDefs
        /\ abbrDefs' = st.abbrDefs
  /\ UNCHANGED <<calls, src, pc, html, placeholderMap, placeholderId, headings, restoreIdx>>

\* extractDefinitions returns; let html = parseBlocks(cleaned) (line 858)
ParseBody ==
  /\ pc = "extract"
  /\ lineNo > Len(SourceLines(src))
  /\ \E r \in {parseBlocks(Join(remaining, <<"\n">>), Defs(linkDefs, abbrDefs), CurCtx)} :
        /\ html' = r.s
        /\ placeholderMap' = r.ctx.map
        /\ placeholderId' = r.ctx.id
        /\ headings' = r.ctx.headings
        /\ pc' = IF r.ctx.threw THEN "threw" ELSE "toc"
  /\ UNCHANGED <<calls, src, lineNo, remaining, linkDefs, footnoteDefs, abbrDefs, restoreIdx>>

\* lines 860-874
Toc ==
  /\ pc = "toc"
  /\ html' = ReplaceToc(html, headings)
  /\ pc' = "footnotes"
  /\ UNCHANGED <<calls, src, lineNo, remaining, linkDefs, footnoteDefs, abbrDefs,
                 placeholderMap, placeholderId, headings, restoreIdx>>

\* lines 876-890
Footnotes ==
  /\ pc = "footnotes"
  /\ \E r \in {AppendFootnotes(html, footnoteDefs, Defs(linkDefs, abbrDefs), CurCtx)} :
        \* html += ... (line 889) is not reached when a body threw
        /\ html' = IF r.ctx.threw THEN html ELSE r.s
        /\ placeholderMap' = r.ctx.map
        /\ placeholderId' = r.ctx.id
        /\ headings' = r.ctx.headings
        /\ pc' = IF r.ctx.threw THEN "threw" ELSE "restore"
  /\ restoreIdx' = 1
  /\ UNCHANGED <<calls, src, lineNo, remaining, linkDefs, footnoteDefs, abbrDefs>>

\* one iteration of placeholderMap.forEach (lines 151-153)
RestoreStep ==
  /\ pc = "restore"
  /\ restoreIdx <= Len(placeholderMap)
  /\ html' = RestoreOne(html, placeholderMap[restoreIdx])
  /\ restoreIdx' = restoreIdx + 1
  /\ UNCHANGED <<calls, src, pc, lineNo, remaining, linkDefs, footnoteDefs, abbrDefs,
                 placeholderMap, placeholderId, headings>>

\* return html (line 893)
Return ==
  /\ pc = "restore"
  /\ restoreIdx > Len(placeholderMap)
  /\ pc' = "done"
  /\ UNCHANGED <<calls, src, lineNo, remaining, linkDefs, footnoteDefs, abbrDefs,
                 html, placeholderMap, placeholderId, headings, restoreIdx>>

Next == ExtractStep \/ ParseBody \/ Toc \/ Footnotes \/ RestoreStep \/ Return

-----------------------------------------------------------------------------
(* Inputs.  Every family is a finite set of documents built from           *)
(* fragments; the bounds say how many fragments, lines or columns a        *)
(* document has at most.                                                   *)

MaxFrags == 4
MaxLines == 3
MaxCols == 3

\* all sequences of at most n elements of S
RECURSIVE SeqsUpTo(_, _)
SeqsUpTo(S, n) ==
  IF n = 0 THEN {<<>>}
  ELSE LET shorter == SeqsUpTo(S, n - 1)
       IN shorter \cup {Append(q, x) : q \in {r \in shorter : Len(r) = n - 1}, x \in S}

\* one paragraph of inline text: plain characters, the characters that
\* escapeHtml rewrites, and the delimiters of the escape, code span and
\* emphasis rules
InlineFrags ==
  {<<"a">>, <<" ">>, <<"&">>, <<"<">>, <<">">>, <<"*">>, <<"\\">>, <<BT>>, <<BT, "b", BT>>}

InlineDocs == {Flatten(q) : q \in SeqsUpTo(InlineFrags, MaxFrags)} \ {<<>>}

SpecInline == InitWith(InlineDocs) /\ [][Next]_vars


\* the documents of at most MaxLines lines drawn from a set of lines
DocsOf(lineSet) == {Join(q, <<"\n">>) : q \in SeqsUpTo(lineSet, MaxLines) \ {<<>>}}

\* lists: items at indent 0 and 2, ordered and unordered markers, a task
\* item, an item with a code span, a continuation line and a blank line
ListLines ==
  {<<"-", " ", "a">>, <<" ", " ", "-", " ", "b">>, <<" ", " ", " ", " ", "-", " ", "c">>,
   <<"1", ".", " ", "a">>, <<" ", " ", "2", ".", " ", "b">>,
   <<"*", " ", BT, "a", BT>>, <<"-", " ", "[", "x", "]", " ", "a">>,
   <<"b">>, <<>>}

ListDocs == DocsOf(ListLines)

SpecLists == InitWith(ListDocs) /\ [][Next]_vars

\* reference-style links and images, their definitions, and other lines
UseA == <<"[", "x", "]", "[", "a", "]">>
UseUpperA == <<"[", "x", "]", "[", "A", "]">>
UseImgA == <<"!", "[", "x", "]", "[", "a", "]">>
UseB == <<"*", "b", "*", " ", "[", "a", "]", "[", "b", "]">>
UseCtor == <<"[", "x", "]", "[", "constructor", "]">>
DefA == <<"[", "a", "]", ":", " ", "c", "/", "d">>
DefB == <<"[", "B", "]", ":", " ", "e", "&", "f">>
RefLines == {UseA, UseUpperA, UseImgA, UseB, UseCtor, DefA, DefB, <<"b">>, <<>>}

RefDocs == DocsOf(RefLines)

SpecRefs == InitWith(RefDocs) /\ [][Next]_vars

\* footnotes and the table of contents: references, definitions (one
\* whose body is a heading), headings, a quoted heading, the directive
NoteLines ==
  {<<"a", "[", "^", "1", "]">>, <<"*", "*", "a", "[", "^", "1", "]", "*", "*">>,
   <<"[", "^", "1", "]", ":", " ", "b">>, <<"[", "^", "x", "]", ":", " ", "#", " ", "c">>,
   <<"a", "[", "^", "x", "]">>,
   <<"[", "toc", "]">>, <<"#", " ", "a">>, <<"#", "#", " ", "A", " ", "b">>,
   <<">", " ", "#", " ", "d">>, <<>>}

NoteDocs == DocsOf(NoteLines)

SpecNotes == InitWith(NoteDocs) /\ [][Next]_vars

\* tables: a header row (A, B, C), a divider row of 1..MaxCols cells and at
\* most one body row (a, *b*, c)
DividerCells ==
  {<<":", "-", "-", "-">>, <<":", "-", "-", "-", ":">>, <<"-", "-", "-", ":">>,
   <<"-", "-", "-">>, <<":", "-", "-", "-", "-", ":">>}

HeaderText(k) == IF k = 1 THEN <<"A">> ELSE IF k = 2 THEN <<"B">> ELSE <<"C">>
CellText(k) == IF k = 1 THEN <<"a">> ELSE IF k = 2 THEN <<"*", "b", "*">> ELSE <<"c">>

\* | c1 | c2 | ... |
Row(cells) == <<"|">> \o Flatten([k \in 1..Len(cells) |-> <<" ">> \o cells[k] \o <<" ", "|">>])

TableSpecs ==
  {[div |-> d, ncols |-> n, rows |-> r] :
     d \in SeqsUpTo(DividerCells, MaxCols) \ {<<>>}, n \in 1..MaxCols, r \in 0..MaxCols}

\* the document of a table: rows = 0 is no body row, else one body row of
\* that many cells
TableDoc(tb) ==
  Join(<<Row([k \in 1..tb.ncols |-> HeaderText(k)]), Row(tb.div)>>
         \o (IF tb.rows = 0 THEN <<>> ELSE <<Row([k \in 1..tb.rows |-> CellText(k)])>>),
       <<"\n">>)

TableDocs == {TableDoc(tb) : tb \in TableSpecs}

SpecTables == InitWith(TableDocs) /\ [][Next]_vars

Spec == InitWith(InlineDocs \cup ListDocs \cup RefDocs \cup NoteDocs \cup TableDocs) /\ [][Next]_vars

\* one line of every block form of parseBlocks, and the lines that make a
\* loop of a parser run on or re-enter: a nested item, a table row, a
\* table divider, a horizontal rule, a footnote continuation, a quoted
\* list, a quoted footnote body, a colored span inside a colored span
MaxTermLines == 2

TermLines ==
  {<<>>, <<"a">>, <<"-", " ", "a">>, <<" ", " ", "-", " ", "b">>,
   <<"|", "a", "|">>, <<"|", "-", "-", "-", "|">>, <<"-", "-", "-">>,
   <<">", " ", "-", " ", "a">>,
   <<"[", "^", "1", "]", ":", " ", ">", " ", "b">>, <<" ", " ", " ", " ", "c">>,
   <<BT, BT, BT>>, <<"<", "b", ">">>, <<"<", "!", "-", "-">>,
   <<"a", " ", ":", " ", "b">>, <<"[", "toc", "]">>, <<"#", " ", "a">>,
   <<"[", "color", "=", "red", "]", "[", "color", "=", "red", "]", "a", "[", "/", "color", "]", "[", "/", "color", "]">>}

\* what a document of the family starts with: nothing, or the header, the
\* divider and a body row of a table
TermHeads ==
  {<<>>, <<<<"|", "a", "|">>, <<"|", "-", "-", "-", "|">>, <<"|", "b", "|">>>>}

\* a head followed by at most MaxTermLines lines
TermDocs ==
  {Join(h \o q, <<"\n">>) : h \in TermHeads, q \in SeqsUpTo(TermLines, MaxTermLines)} \ {<<>>}

SpecBlocks == InitWith(TermDocs) /\ [][Next]_vars

\* definition lines that repeat a key: a footnote id (1, __proto__), an
\* abbreviation term, a link label in two spellings; a continuation line,
\* a blank line and a line of text
DupLines ==
  {<<"[", "^", "1", "]", ":", " ", "a">>, <<"[", "^", "1", "]", ":", " ", "b">>,
   <<"[", "^">> \o ProtoName \o <<"]", ":", " ", "a">>,
   <<"[", "^">> \o ProtoName \o <<"]", ":", " ", "b">>,
   <<"*", "[", "A", "]", ":", " ", "a">>, <<"*", "[", "A", "]", ":", " ", "b">>,
   <<"[", "a", "]", ":", " ", "u">>, <<"[", "A", "]", ":", " ", "v">>,
   <<" ", " ", " ", " ", "c">>, <<>>, <<"A">>}

DupDocs == DocsOf(DupLines)

SpecDups == InitWith(DupDocs) /\ [][Next]_vars

\* lines of text around definitions: two lines of text, a blank line, one
\* definition of each form and a continuation line
MaxBodyLines == 4

BodyLines ==
  {<<"a">>, <<"b">>, <<>>, <<"[", "^", "1", "]", ":", " ", "x">>,
   <<" ", " ", " ", " ", "c">>, <<"*", "[", "A", "]", ":", " ", "a">>,
   <<"[", "a", "]", ":", " ", "u">>}

BodyDocs == {Join(q, <<"\n">>) : q \in SeqsUpTo(BodyLines, MaxBodyLines) \ {<<>>}}

SpecBody == InitWith(BodyDocs) /\ [][Next]_vars

\* the directive [toc] where the block parser meets it: at top level, in a
\* blockquote, in a footnote body; a heading, a reference, a line of text
TocLines ==
  {<<"[", "toc", "]">>, <<">", " ", "[", "TOC", "]">>,
   <<"[", "^", "x", "]", ":", " ", "[", "toc", "]">>,
   <<"#", " ", "a">>, <<"a", "[", "^", "x", "]">>, <<"a">>}

TocDocs == DocsOf(TocLines)

SpecToc == InitWith(TocDocs) /\ [][Next]_vars

\* one paragraph for the rules that run after the first keys are made: a
\* code span, what the autolink, issue, mention and abbreviation rules
\* match, and the characters of a placeholder key typed by the user; before
\* it at most one abbreviation definition (the terms A and 0)
MaxVaultFrags == 3

VaultFrags ==
  {<<BT, "b", BT>>, <<"A">>, <<" ">>, <<"0">>, <<"http", ":", "/", "/", "a">>,
   <<"#", "1">>, <<"@", "a">>, <<"a", "@", "b", ".", "a", "b">>, PlaceholderKey(0)}

VaultAbbrs ==
  {<<>>, <<"*", "[", "A", "]", ":", " ", "z", "\n">>, <<"*", "[", "0", "]", ":", " ", "z", "\n">>}

VaultDocs ==
  {a \o Flatten(q) : a \in VaultAbbrs, q \in SeqsUpTo(VaultFrags, MaxVaultFrags) \ {<<>>}}

SpecVault == InitWith(VaultDocs) /\ [][Next]_vars

\* fenced code: the two fences, a fence with an info string, an indented
\* fence, a line the inline rules and escapeHtml would rewrite, a blank
\* line and a line of the form of a footnote definition
MaxFenceLines == 4

FenceLines ==
  {<<BT, BT, BT>>, <<"~", "~", "~">>, <<BT, BT, BT, "a">>, <<" ", " ", BT, BT, BT>>,
   <<"*", "a", "<", "&", "*">>, <<>>, <<"[", "^", "1", "]", ":", " ", "x">>}

FenceDocs == {Join(q, <<"\n">>) : q \in SeqsUpTo(FenceLines, MaxFenceLines) \ {<<>>}}

SpecFences == InitWith(FenceDocs) /\ [][Next]_vars

\* table rows with a backslash before a delimiter: header and body rows
\* with and without \|, dividers of one and two cells, a line with no
\* delimiter
MaxPipeLines == 3
PipeLines ==
  {<<"|", " ", "A", "\\", "|", "B", " ", "|">>, <<"|", " ", "A", " ", "|", " ", "B", " ", "|">>,
   <<"A", "\\", "|", "B">>, <<"|", " ", "-", "-", "-", " ", "|">>,
   <<"|", " ", "-", "-", "-", " ", "|", " ", "-", "-", "-", " ", "|">>,
   <<"|", " ", "a", "\\", "|", "b", " ", "|">>, <<"a">>}
PipeDocs == {Join(q, <<"\n">>) : q \in SeqsUpTo(PipeLines, MaxPipeLines) \ {<<>>}}
SpecPipes == InitWith(PipeDocs) /\ [][Next]_vars

\* emoji shortcodes: the colon, a name of EMOJI_MAP, names of
\* Object.prototype, names in neither, a space
MaxEmojiFrags == 4
EmojiFrags == {<<":">>, <<"smile">>, <<"constructor">>, ProtoName, <<"a">>, <<"A">>, <<" ">>}
EmojiDocs == {Flatten(q) : q \in SeqsUpTo(EmojiFrags, MaxEmojiFrags)} \ {<<>>}
SpecEmoji == InitWith(EmojiDocs) /\ [][Next]_vars

\* colored text after the word a: [color=X]content[/color] with X a named
\* color, up to MaxColorChars characters of hex digits, # and x, four and
\* six hex digits, and the content plain or holding a code span, an
\* emphasis or a shortcode
MaxColorChars == 3
ColorNames ==
  {Flatten(q) : q \in SeqsUpTo({<<"a">>, <<"B">>, <<"0">>, <<"#">>, <<"x">>}, MaxColorChars) \ {<<>>}}
    \cup {<<"red">>, <<"a", "b", "c", "d">>, <<"a", "b", "c", "d", "e", "f">>,
          <<"#", "A", "B", "C", "0", "1", "2">>}
ColorContents ==
  {<<"a">>, <<":", "smile", ":">>, <<"*", "a", "*">>, <<BT, "b", BT>>, <<"a", "&">>}
ColorDoc(name, content) ==
  <<"a", " ", "[", "color", "=">> \o name \o <<"]">> \o content \o <<"[", "/", "color", "]">>
ColorDocs == {ColorDoc(n, c) : n \in ColorNames, c \in ColorContents}
SpecColors == InitWith(ColorDocs) /\ [][Next]_vars

\* nesting: a list whose items are each indented two more than the one
\* before (or one line of text when it has no item), inside blockquotes:
\* at most MaxNest lists and blockquotes in all; the text is a letter or a
\* code span
MaxNest == 3
Repeat(tok, n) == [j \in 1..n |-> tok]
NestLine(quotes, indent, text) ==
  Repeat(">", quotes) \o (IF quotes > 0 THEN <<" ">> ELSE <<>>) \o Repeat(" ", indent)
    \o <<"-", " ">> \o text
NestDoc(quotes, items, text) ==
  IF items = 0 THEN Repeat(">", quotes) \o <<" ">> \o text
  ELSE Join([k \in 1..items |-> NestLine(quotes, 2 * (k - 1), text)], <<"\n">>)
NestPairs == {p \in (0..MaxNest) \X (0..MaxNest) : p[1] + p[2] <= MaxNest}
NestDocs == {NestDoc(p[1], p[2], t) : p \in NestPairs, t \in {<<"a">>, <<"A">>, <<BT, "b", BT>>}}
SpecNest == InitWith(NestDocs) /\ [][Next]_vars

\* footnote definitions in several orders: the ids 2, 1, x (its text an
\* emphasis) and 01, the id 1 defined a second time
MaxOrderLines == 3
OrderLines ==
  {<<"[", "^", "2", "]", ":", " ", "a">>, <<"[", "^", "1", "]", ":", " ", "b">>,
   <<"[", "^", "x", "]", ":", " ", "*", "c", "*">>, <<"[", "^", "1", "]", ":", " ", "d">>,
   <<"[", "^", "0", "1", "]", ":", " ", "e">>}
OrderDocs == {Join(q, <<"\n">>) : q \in SeqsUpTo(OrderLines, MaxOrderLines) \ {<<>>}}
SpecOrder == InitWith(OrderDocs) /\ [][Next]_vars

\* the characters of TOC_PLACEHOLDER typed by the author: at most
\* MaxMarkerLines lines that hold them as a paragraph, in a heading or in a
\* line of block HTML, or are a fence or the directive; and the documents
\* that hold them in a list item and in a table cell
MaxMarkerLines == 3
MarkerLines ==
  {TOC_PLACEHOLDER, <<"#", " ">> \o TOC_PLACEHOLDER, <<"<", "b", ">">> \o TOC_PLACEHOLDER,
   <<BT, BT, BT>>, <<"[", "toc", "]">>}
MarkerDocs ==
  {Join(q, <<"\n">>) : q \in SeqsUpTo(MarkerLines, MaxMarkerLines) \ {<<>>}}
    \cup {<<"-", " ">> \o TOC_PLACEHOLDER,
          <<"|", " ">> \o TOC_PLACEHOLDER \o <<" ", "|", "\n", "|", "-", "-", "-", "|">>,
          <<"|", "a", "|", "\n", "|", "-", "-", "-", "|", "\n", "|">> \o TOC_PLACEHOLDER \o <<"|">>}
SpecMarker == InitWith(MarkerDocs) /\ [][Next]_vars

-----------------------------------------------------------------------------
(* Consecutive calls.  renderMarkdown is a module-level function; every    *)
(* call evaluates lines 138-157 again, which declare placeholderMap,       *)
(* placeholderId and headings as locals of that call.                      *)

MaxCalls == 2

\* the entry of a call on s that keeps the vault and the heading list of
\* the call before
EnterStale(s) ==
  /\ src' = s
  /\ pc' = "extract"
  /\ lineNo' = 1
  /\ remaining' = <<>>
  /\ linkDefs' = <<>>
  /\ footnoteDefs' = <<>>
  /\ abbrDefs' = <<>>
  /\ html' = <<>>
  /\ UNCHANGED <<placeholderMap, placeholderId, headings>>
  /\ restoreIdx' = 0

\* the entry of a call on s (lines 137-157)
Enter(s) ==
  /\ src' = s
  /\ pc' = "extract"
  /\ lineNo' = 1
  /\ remaining' = <<>>
  /\ linkDefs' = <<>>
  /\ footnoteDefs' = <<>>
  /\ abbrDefs' = <<>>
  /\ html' = <<>>
  /\ placeholderMap' = <<>>
  /\ placeholderId' = 0
  /\ headings' = <<>>
  /\ restoreIdx' = 0

\* documents for consecutive calls: the directive, headings, a code span
\* and the reference that throws
CallLines ==
  {<<"[", "toc", "]">>, <<"#", " ", "a">>, <<"#", "#", " ", "b">>, <<BT, "b", BT>>, UseCtor}

CallDocs == DocsOf(CallLines)

\* the caller calls renderMarkdown again after a call has returned or thrown
Call ==
  /\ pc \in {"done", "threw"}
  /\ calls < MaxCalls
  /\ calls' = calls + 1
  /\ \E s \in CallDocs : Enter(s)

NextCalls == Next \/ Call

SpecCalls == InitWith(CallDocs) /\ [][NextCalls]_vars

-----------------------------------------------------------------------------
(* Properties.  Each is stated on the state of one call: src is the        *)
(* input, remaining the body lines extractDefinitions kept, html the       *)
(* markup so far, pc = "done" the call that returned and pc = "threw" the  *)
(* call a TypeError left.                                                  *)

Finished == pc \in {"done", "threw"}

\* l is one of the body lines
HasLine(l) == \E k \in 1..Len(remaining) : remaining[k] = l

\* the indices of s that hold tok, in ascending order
Positions(s, tok) ==
  LET P == {k \in 1..Len(s) : s[k] = tok}
  IN [n \in 1..Cardinality(P) |-> CHOOSE k \in P : Cardinality({j \in P : j <= k}) = n]

\* how many of the first k - 1 tokens of s are in S
CountBefore(s, k, S) == Cardinality({j \in 1..(k - 1) : s[j] \in S})

\* C1: for every input the call returns a string and never throws: no lookup
\* in the link-definition, footnote, abbreviation or emoji table and no rule
\* of the parsers raises an exception, whatever labels the input uses.
C1_NeverThrows == pc # "threw"

\* the call that C1 excludes: [x][constructor] finds Object.prototype's
\* constructor in linkDefs and escapeHtmlAttr(def.url) throws
C1_Thrown == pc = "threw" /\ HasLine(UseCtor) /\ ~HasOwn(linkDefs, <<"constructor">>)

\* C2: each '<', '>' and '&' of plain text (text no inline rule matches,
\* outside raw HTML blocks, comments and inline tags) appears in the output
\* only in escaped form.  Stated for a one-line document in which no rule
\* protected anything (the vault is empty), that is no raw HTML block and no
\* block quote: the markup holds none of the three characters bare.
C2_PlainTextEscaped ==
  (pc = "done" /\ placeholderMap = <<>> /\ ~IsHtmlStart(src) /\ ~IsQuote(src))
    => \A k \in 1..Len(html) : html[k] \notin {"<", ">", "&"}

\* the paragraph a&a comes back with its ampersand bare
C2_BareAmpersand ==
  /\ pc = "done"
  /\ src = <<"a", "&", "a">>
  /\ html = <<P_OPEN, "a", "&", "a", "</p>">>

\* C3: after the final substitution pass the returned markup contains no
\* placeholder key: every key made during the call is replaced by its
\* stored markup, also when it sits inside the stored markup of another key.
C3_NoKeyLeft ==
  pc = "done" => \A k \in 1..Len(placeholderMap) : ~Includes(html, placeholderMap[k][1])

\* a code span inside an emphasis: the code span's key, made first, is
\* substituted first, before the emphasis markup that holds it is put back
C3_KeyLeftInEmphasis ==
  /\ pc = "done"
  /\ src = <<"*", BT, "b", BT, "*">>
  /\ Includes(html, PlaceholderKey(0))

\* src is one code span: a backtick, content without backticks, a backtick
IsCodeSpanDoc ==
  /\ Len(src) >= 3
  /\ src[1] = BT
  /\ src[Len(src)] = BT
  /\ \A j \in 2..(Len(src) - 1) : src[j] # BT

\* C4: the content c of an inline code span is emitted HTML-escaped inside
\* a code fragment and is rewritten by no other inline rule: the paragraph
\* that is the code span of c renders the literal characters of c.
C4_CodeSpanLiteral ==
  (pc = "done" /\ IsCodeSpanDoc)
    => html = <<P_OPEN>> \o CODE_OPEN \o escapeHtml(Sub(src, 2, Len(src) - 1))
                \o <<"</code>", "</p>">>

\* the code span of \* : the escape rule, which runs first, has rewritten
\* its content
C4_EscapeInsideCode ==
  /\ pc = "done"
  /\ src = <<BT, "\\", "*", BT>>
  /\ html = <<P_OPEN>> \o CODE_OPEN \o PlaceholderKey(0) \o <<"</code>", "</p>">>

\* the depth of open lists and of open items before token k of html
ListDepth(k) ==
  CountBefore(html, k, {UL_OPEN, OL_OPEN}) - CountBefore(html, k, {"</ul>", "</ol>"})
ItemDepth(k) ==
  CountBefore(html, k, {LI_OPEN}) - CountBefore(html, k, {"</li>"})

\* C5: a nested list's markup is placed inside the preceding shallower
\* item's own <li>...</li>, not as a sibling of that item: every list that
\* opens inside another list opens inside an open item of that list.
C5_NestedInsideItem ==
  pc = "done" =>
    \A k \in 1..Len(html) :
      (html[k] \in {UL_OPEN, OL_OPEN} /\ ListDepth(k) >= 1) => ItemDepth(k) >= ListDepth(k)

\* "- a" then "  - b": the nested list follows the closed item
C5_NestedAfterItem ==
  /\ pc = "done"
  /\ src = <<"-", " ", "a", "\n", " ", " ", "-", " ", "b">>
  /\ html = <<UL_OPEN, LI_OPEN, "a", "</li>", UL_OPEN, LI_OPEN, "b", "</li>", "</ul>", "</ul>">>

\* the alignment the divider cell stands for: ':---:' center, '---:' right,
\* ':---' left, '---' none
DividerAlign(cell) ==
  IF Ch(cell, 1) = ":" /\ Ch(cell, Len(cell)) = ":" THEN "center"
  ELSE IF Ch(cell, Len(cell)) = ":" THEN "right"
  ELSE IF Ch(cell, 1) = ":" THEN "left"
  ELSE "none"

\* the alignments of the cells of html that open with tag, in order
CellAligns(tag) ==
  LET at == Positions(html, tag)
  IN [n \in 1..Len(at) |->
        IF Ch(html, at[n] + 1) = STYLE_ALIGN THEN Ch(html, at[n] + 2) ELSE "none"]

\* the alignments of a row of n cells under the divider cells div
RowAligns(div, n) ==
  [k \in 1..n |-> IF k <= Len(div) THEN DividerAlign(div[k]) ELSE "none"]

\* C6: parseTableAt derives one alignment per column from the divider row,
\* in column order (':---:' center, '---:' right, ':---' left, '---' none),
\* and the header cell and every body cell of column k carry column k's
\* alignment; a column the divider row has no cell for carries none.
C6_ColumnAlignment ==
  pc = "done" =>
    LET lines == SourceLines(src)
        div == splitRow(lines[2])
        nh == Len(splitRow(lines[1]))
        nb == IF Len(lines) >= 3 THEN Len(splitRow(lines[3])) ELSE 0
    IN /\ CellAligns("<th") = RowAligns(div, nh)
       /\ CellAligns("<td") = RowAligns(div, nb)

\* header | A | B | C | with divider | :--- | :---: | ---: | and a body row
C6_LeftCenterRight ==
  /\ pc = "done"
  /\ src = TableDoc([div |-> <<<<":", "-", "-", "-">>, <<":", "-", "-", "-", ":">>,
                               <<"-", "-", "-", ":">>>>,
                     ncols |-> 3, rows |-> 3])
  /\ CellAligns("<th") = <<"left", "center", "right">>
  /\ CellAligns("<td") = <<"left", "center", "right">>

\* the label of a reference [x][label] that is a line of its own
LabelOf(use) == toLowerCase(<<use[Len(use) - 1]>>)

\* C7: for every reference-style link [text][label] whose label has no
\* definition in the document (compared case-insensitively) the output
\* contains the literal text [text][label] unchanged, and no error is
\* raised.
C7_DanglingReferenceLiteral ==
  \A use \in {UseA, UseUpperA, UseCtor} :
    (Finished /\ HasLine(use) /\ ~HasOwn(linkDefs, LabelOf(use)))
      => (pc = "done" /\ Includes(html, use))

\* a dangling [x][a] does come back unchanged
C7_DanglingKept ==
  /\ pc = "done"
  /\ src = UseA
  /\ html = <<P_OPEN>> \o UseA \o <<"</p>">>

\* the markup of [x][a] and ![x][a] under the definition [a]: c/d
ResolvedA(use) ==
  IF use = UseImgA THEN ImgMarkup(<<"c", "/", "d">>, <<"x">>, NoTitle)
  ELSE LinkMarkup(<<"c", "/", "d">>, <<"x">>, NoTitle)

\* C8: the three definition tables are fully populated by
\* extractDefinitions before parseBlocks reads its first line (while the
\* extractor runs nothing is parsed, and from then on the tables are those
\* of the whole document), so a reference-style link or image resolves to
\* its definition whether the definition line stands before or after it.
C8_DefinitionsBeforeParsing ==
  /\ pc = "extract" => (html = <<>> /\ placeholderMap = <<>> /\ headings = <<>>)
  /\ pc # "extract" =>
       /\ linkDefs = extractDefinitions(src).linkDefs
       /\ footnoteDefs = extractDefinitions(src).footnoteDefs
       /\ abbrDefs = extractDefinitions(src).abbrDefs
  /\ pc = "done" =>
       \A use \in {UseA, UseUpperA, UseImgA} :
         (HasLine(use) /\ \E k \in 1..Len(SourceLines(src)) : SourceLines(src)[k] = DefA)
           => Includes(html, ResolvedA(use))

\* the use stands before its definition and resolves
C8_ForwardReference ==
  /\ pc = "done"
  /\ src = Join(<<UseA, DefA>>, <<"\n">>)
  /\ html = <<P_OPEN>> \o ResolvedA(UseA) \o <<"</p>">>

\* the body holds a reference [^id]
Cites(id) ==
  \E k \in 1..Len(remaining) : Includes(remaining[k], <<"[", "^", id, "]">>)

\* C9: for every footnote id that is both referenced and defined the output
\* has a citation anchor with element id fnref-<id> linking to #fn-<id>,
\* and a footnote-section entry with element id fn-<id> whose
\* back-reference link targets #fnref-<id>.
C9_FootnoteRoundTrip ==
  \A id \in {"1", "x"} :
    (pc = "done" /\ Cites(id) /\ HasOwn(footnoteDefs, <<id>>))
      => /\ Includes(html, <<"<sup id=\"fnref-", id,
                             "\" class=\"text-[0.7em] align-super\"><a href=\"#fn-", id>>)
         /\ Includes(html, <<"<li id=\"fn-", id>>)
         /\ Includes(html, <<" <a href=\"#fnref-", id>>)

\* **a[^1]** with [^1]: b: the entry is there, the citation anchor is not
C9_CitationLostInBold ==
  /\ pc = "done"
  /\ src = Join(<<<<"*", "*", "a", "[", "^", "1", "]", "*", "*">>,
                  <<"[", "^", "1", "]", ":", " ", "b">>>>, <<"\n">>)
  /\ Includes(html, <<"<li id=\"fn-", "1">>)
  /\ ~Includes(html, <<"<sup id=\"fnref-", "1">>)

\* the link targets of the entries of the navigation block that opens at
\* token p of html, in order
TocTargets(p) ==
  LET nav == Sub(html, p, FirstFrom(html, p, {"</nav>"}))
      at == Positions(nav, TOC_HREF)
  IN [n \in 1..Len(at) |->
        Sub(nav, at[n] + 1, FirstFrom(nav, at[n] + 1, {TOC_LINK_CLASS}) - 1)]

\* where the navigation blocks of html open
NavBlocks == Positions(html, NAV_OPEN)

\* C10: in a compile whose document emits the table-of-contents marker the
\* navigation block has, for every heading the block parser records during
\* that compile and in traversal order, one entry whose link target equals
\* that heading's anchor id.
C10_TocCoversHeadings ==
  (pc = "done" /\ \E k \in 1..Len(remaining) : IsTocLine(remaining[k]))
    => /\ Len(NavBlocks) >= 1
       /\ \A n \in 1..Len(NavBlocks) :
            TocTargets(NavBlocks[n]) = [k \in 1..Len(headings) |-> escapeHtmlAttr(headings[k].id)]

\* [toc], a heading and a footnote whose body is a heading: the footnote's
\* heading is recorded after the navigation block was built
C10_FootnoteHeadingMissing ==
  /\ pc = "done"
  /\ src = Join(<<<<"[", "toc", "]">>, <<"#", " ", "a">>,
                  <<"[", "^", "x", "]", ":", " ", "#", " ", "c">>>>, <<"\n">>)
  /\ [k \in 1..Len(headings) |-> headings[k].id] = <<<<"a">>, <<"c">>>>
  /\ TocTargets(1) = <<<<"a">>>>

\* C11: renderMarkdown keeps no mutable state across calls: the placeholder
\* map, the placeholder counter and the heading list are empty when a call
\* starts, and what a call returns (or that it throws) is what
\* renderMarkdown returns for its input alone, whatever calls ran before.
C11_CallsIndependent ==
  /\ (pc = "extract" => placeholderMap = <<>> /\ placeholderId = 0 /\ headings = <<>>)
  /\ (pc = "done" => html = renderMarkdown(src))
  /\ (pc = "threw" => renderMarkdown(src) = <<"TypeError">>)

\* a later call that has returned, after it made placeholders and recorded
\* headings of its own
C11_LaterCallReturned ==
  /\ calls >= 1
  /\ pc = "done"
  /\ placeholderId > 0
  /\ headings # <<>>
  /\ Includes(html, <<NAV_OPEN>>)

\* every iteration of the loop of parseBlocks on the lines moves the cursor
\* forward, and so does every table and every list that starts on a line
Advances(lines, defs) ==
  \A i \in 1..Len(lines) :
    /\ BlockAt(lines, i, defs, NewCtx).next > i
    /\ (i < Len(lines) => parseTableAt(lines, i, defs, NewCtx).next > i)
    /\ parseListAt(lines, i, defs, NewCtx).next > i

\* the line arrays parseBlocks runs on: the body and the footnote bodies
ParsedTexts ==
  {remaining} \cup {SourceLines(footnoteDefs[k][2]) : k \in 1..Len(footnoteDefs)}

\* what is left of the call: the phases ahead, then the iterations the
\* loop of the current phase has ahead
PhasesLeft ==
  CASE pc = "extract" -> 4
    [] pc = "toc" -> 3
    [] pc = "footnotes" -> 2
    [] pc = "restore" -> 1
    [] OTHER -> 0

\* the cursor of the loop of the current phase
Cursor ==
  CASE pc = "extract" -> lineNo
    [] pc = "restore" -> restoreIdx
    [] OTHER -> 0

IterationsLeft ==
  CASE pc = "extract" -> Len(SourceLines(src)) + 1 - Cursor
    [] pc = "restore" -> Len(placeholderMap) + 1 - Cursor
    [] OTHER -> 0

\* C12: for every finite input the call terminates: every iteration of the
\* loops of parseBlocks and parseListAt moves the line cursor forward by
\* at least one line (parseTableAt and parseListAt return next > start),
\* also on the lines of a footnote body, and every step of the call either
\* enters a later phase or moves the cursor of its loop forward, never past
\* the end of what the loop runs over: the call ends after finitely many
\* steps.
C12_Terminates ==
  /\ [](pc \in {"toc", "threw"}
          => \A lines \in ParsedTexts : Advances(lines, Defs(linkDefs, abbrDefs)))
  /\ [](IterationsLeft >= 0)
  /\ [][\/ PhasesLeft' < PhasesLeft
        \/ PhasesLeft' = PhasesLeft /\ Cursor' > Cursor]_vars

\* a call that has returned after the loops ran on a table with a body row
\* and then on a list with a nested item
C12_TableAndNestedListDone ==
  /\ pc = "done"
  /\ src = Join(<<<<"|", "a", "|">>, <<"|", "-", "-", "-", "|">>, <<"|", "b", "|">>,
                  <<"-", " ", "a">>, <<" ", " ", "-", " ", "b">>>>, <<"\n">>)
  /\ Len(Positions(html, "<th")) = 1
  /\ Len(Positions(html, "<td")) = 1
  /\ Len(Positions(html, UL_OPEN)) = 2

\* C13: the footnote section is appended to the output if and only if at
\* least one footnote id is both referenced in the document and has a
\* definition; a document whose footnote definitions are never referenced
\* gets no footnote section.
C13_SectionIffCitedAndDefined ==
  pc = "done"
    => (Includes(html, <<FOOTNOTES_OPEN>>)
          <=> \E id \in {"1", "x"} : Cites(id) /\ HasOwn(footnoteDefs, <<id>>))

\* [^1]: b alone: no reference anywhere, and the section is in the output
C13_UncitedSection ==
  /\ pc = "done"
  /\ src = <<"[", "^", "1", "]", ":", " ", "b">>
  /\ remaining = <<>>
  /\ Includes(html, <<FOOTNOTES_OPEN, "<li id=\"fn-", "1">>)

\* C14: in parseTableAt a body row with fewer cells than the header is
\* treated as having empty trailing cells: every body row of the rendered
\* table has as many cells as the header row, and no error is raised.
C14_ShortRowPadded ==
  LET lines == SourceLines(src)
  IN /\ (Len(lines) >= 3 => pc # "threw")
     /\ (pc = "done" /\ Len(lines) >= 3
           /\ Len(splitRow(lines[3])) <= Len(splitRow(lines[1])))
          => Len(Positions(html, "<td")) = Len(Positions(html, "<th"))

\* header | A | B | with divider | --- | --- | and the body row | a |: the
\* rendered body row has the one cell
C14_ShortRowRendered ==
  /\ pc = "done"
  /\ src = TableDoc([div |-> <<<<"-", "-", "-">>, <<"-", "-", "-">>>>, ncols |-> 2, rows |-> 1])
  /\ Len(Positions(html, "<th")) = 2
  /\ Len(Positions(html, "<td")) = 1
  /\ Includes(html, <<"<tbody>", "<tr>", "<td", TD_CLASS, "a", "</td>", "</tr>", "</tbody>">>)

\* the lines of src that define footnote id, abbreviation term, link label
FootnoteLines(id) ==
  {k \in 1..Len(SourceLines(src)) :
     FootnoteDefMatch(SourceLines(src)[k]).ok /\ FootnoteDefMatch(SourceLines(src)[k]).id = id}

AbbrLines(term) ==
  {k \in 1..Len(SourceLines(src)) :
     AbbrDefMatch(SourceLines(src)[k]).ok /\ AbbrDefMatch(SourceLines(src)[k]).term = term}

LinkLines(label) ==
  {k \in 1..Len(SourceLines(src)) :
     /\ ~FootnoteDefMatch(SourceLines(src)[k]).ok
     /\ LinkDefMatch(SourceLines(src)[k]).ok
     /\ toLowerCase(LinkDefMatch(SourceLines(src)[k]).label) = label}

\* C15: in extractDefinitions, when two definition lines of the same form
\* have the same key (footnote id, abbreviation term, or link label
\* compared case-insensitively), the table holds the value of the later
\* line after extraction, and no error is raised.
C15_LastDefinitionWins ==
  pc # "extract" =>
    /\ pc # "threw"
    /\ \A id \in {<<"1">>, ProtoName} :
         FootnoteLines(id) # {}
           => ObjGet(footnoteDefs, id)
                = Own(FootnoteBody(SourceLines(src), Max(FootnoteLines(id)) + 1,
                                   FootnoteDefMatch(SourceLines(src)[Max(FootnoteLines(id))]).text)[1])
    /\ AbbrLines(<<"A">>) # {}
         => ObjGet(abbrDefs, <<"A">>)
              = Own(AbbrDefMatch(SourceLines(src)[Max(AbbrLines(<<"A">>))]).text)
    /\ LinkLines(<<"a">>) # {}
         => ObjGet(linkDefs, <<"a">>)
              = Own([url |-> LinkDefMatch(SourceLines(src)[Max(LinkLines(<<"a">>))]).url,
                     title |-> LinkDefMatch(SourceLines(src)[Max(LinkLines(<<"a">>))]).title])

\* [^__proto__]: a then [^__proto__]: b: the table holds neither value, and
\* the call returns without a footnotes section
C15_ProtoNoteDropped ==
  /\ pc = "done"
  /\ src = Join(<<<<"[", "^">> \o ProtoName \o <<"]", ":", " ", "a">>,
                  <<"[", "^">> \o ProtoName \o <<"]", ":", " ", "b">>>>, <<"\n">>)
  /\ footnoteDefs = <<>>
  /\ ObjGet(footnoteDefs, ProtoName) = ObjectPrototype
  /\ html = <<>>

\* the line matches one of the three definition forms
IsDefinitionLine(line) ==
  FootnoteDefMatch(line).ok \/ AbbrDefMatch(line).ok \/ LinkDefMatch(line).ok

\* the lines from i on without the definition lines and without the
\* indented lines that continue a footnote definition; inNote: line i
\* follows a footnote definition or one of its continuation lines
RECURSIVE WithoutDefinitions(_, _, _)
WithoutDefinitions(lines, i, inNote) ==
  IF i > Len(lines) THEN <<>>
  ELSE IF IsDefinitionLine(lines[i])
  THEN WithoutDefinitions(lines, i + 1, FootnoteDefMatch(lines[i]).ok)
  ELSE IF inNote /\ IsIndented(lines[i])
  THEN WithoutDefinitions(lines, i + 1, TRUE)
  ELSE <<lines[i]>> \o WithoutDefinitions(lines, i + 1, FALSE)

\* C16: extractDefinitions passes every line that matches none of the three
\* definition forms into the body unchanged, in original order, blank lines
\* included: the body equals the input with exactly the definition lines
\* (and a footnote's indented continuation lines) removed, so two
\* paragraphs separated by a blank line stay separated by a blank line.
C16_BodyKeepsOtherLines ==
  pc # "extract" => remaining = WithoutDefinitions(SourceLines(src), 1, FALSE)

\* a, [^1]: x, a blank line, b: the blank line is taken into the footnote
\* and the body is the two lines a and b, one paragraph
C16_BlankLineTaken ==
  /\ pc = "done"
  /\ src = Join(<<<<"a">>, <<"[", "^", "1", "]", ":", " ", "x">>, <<>>, <<"b">>>>, <<"\n">>)
  /\ remaining = <<<<"a">>, <<"b">>>>
  /\ footnoteDefs = <<<<<<"1">>, <<"x", "\n">>>>>>
  /\ Includes(html, <<P_OPEN, "a", "<br class=\"block\" />", "b", "</p>">>)

\* C17: throughout a call no markup fragment stored in placeholderMap
\* contains a placeholder key: every rule stores finalized markup only.
C17_StoredMarkupHoldsNoKey ==
  \A k \in 1..Len(placeholderMap) :
    \A j \in 1..Len(placeholderMap) :
      ~Includes(placeholderMap[k][2], placeholderMap[j][1])

\* a code span inside an emphasis: the fragment stored for the emphasis is
\* the <em> element around the key of the code span
C17_KeyStoredInEmphasis ==
  /\ pc = "toc"
  /\ src = <<"*", BT, "b", BT, "*">>
  /\ Len(placeholderMap) = 2
  /\ placeholderMap[1][1] = PlaceholderKey(0)
  /\ placeholderMap[2][2] = <<"<em class=\"italic\">">> \o PlaceholderKey(0) \o <<"</em>">>

\* the call meets the directive in the body or in a footnote body
MeetsToc ==
  \/ \E k \in 1..Len(remaining) :
        IsTocLine(remaining[k]) \/ (IsQuote(remaining[k]) /\ Includes(toLowerCase(remaining[k]), <<"[", "toc", "]">>))
  \/ \E k \in 1..Len(footnoteDefs) :
        \E n \in 1..Len(SourceLines(footnoteDefs[k][2])) : IsTocLine(SourceLines(footnoteDefs[k][2])[n])

\* C18: whenever the block parser emits the table-of-contents marker during
\* a call (at top level, inside a blockquote, or inside a footnote body),
\* the post-processor replaces it with the generated navigation block: the
\* returned markup never contains the internal marker token.
C18_NoTocMarkerReturned ==
  (pc = "done" /\ MeetsToc) => ~Includes(html, TOC_PLACEHOLDER)

\* [^x]: [toc]: the footnote entry holds the marker, and no navigation
\* block was generated
C18_MarkerInFootnote ==
  /\ pc = "done"
  /\ src = <<"[", "^", "x", "]", ":", " ", "[", "toc", "]">>
  /\ Includes(html, <<"<li id=\"fn-", "x", "\" class=\"ml-1\">">> \o TOC_PLACEHOLDER)
  /\ ~Includes(html, <<NAV_OPEN>>)

\* the first rule of renderInline that runs on what remains after the
\* protected substitutions: the bare URL autolink
FirstLatePass == CHOOSE k \in 1..Len(InlineRules) : InlineRules[k] = "autolink"

\* a line after the first m passes of renderInline, in a fresh call
AfterPasses(line, defs, m) ==
  ApplyRules(SubSeq(Passes(ObjKeys(defs.abbr)), 1, m), defs, R(NormalizeNewlines(line), NewCtx))

\* every key made so far that is in the text before is in the text after
KeysKept(before, after) ==
  \A k \in 1..Len(before.ctx.map) :
    Includes(before.s, before.ctx.map[k][1]) => Includes(after.s, before.ctx.map[k][1])

\* C19: once an inline rule has exchanged a fragment for a placeholder key,
\* no later rule (bare URL/email autolink, issue reference, mention, commit
\* hash, abbreviation expansion) matches inside the protected fragment or
\* alters its key: each key present in the text after a rule is still
\* present, intact, after every later rule, for every set of abbreviation
\* terms.
C19_LateRulesKeepKeys ==
  pc # "extract" =>
    \A k \in 1..Len(remaining) :
      \A m \in FirstLatePass..Len(Passes(ObjKeys(abbrDefs))) :
        KeysKept(AfterPasses(remaining[k], Defs(linkDefs, abbrDefs), m - 1),
                 AfterPasses(remaining[k], Defs(linkDefs, abbrDefs), m))

\* the abbreviation 0 and a code span: the abbreviation rule matches the 0
\* of the code span's key, and the code fragment is not in the output
C19_KeyBrokenByAbbreviation ==
  /\ pc = "done"
  /\ src = <<"*", "[", "0", "]", ":", " ", "z", "\n", BT, "b", BT>>
  /\ placeholderMap[1] = <<PlaceholderKey(0), CODE_OPEN \o <<"b", "</code>">>>>
  /\ ~Includes(html, CODE_OPEN)
  /\ Includes(html, <<"\\uE000", "<abbr title=\"">>)

\* C20: within one call every placeholder key is distinct and maps to
\* exactly one stored fragment (makePlaceholder never reuses or overwrites
\* a key), and no key equals a substring of the user's input text, so the
\* final pass substitutes only at positions where a rule inserted a key.
C20_KeysDistinctFromInput ==
  /\ Len(placeholderMap) = placeholderId
  /\ \A k \in 1..Len(placeholderMap) :
       /\ placeholderMap[k][1] = PlaceholderKey(k - 1)
       /\ ~Includes(src, placeholderMap[k][1])

\* the characters U+E000 0 U+E001 typed before a code span: the final pass
\* puts the code fragment in their place too
C20_TypedKeySubstituted ==
  /\ pc = "done"
  /\ src = PlaceholderKey(0) \o <<BT, "b", BT>>
  /\ Len(placeholderMap) = 1
  /\ html = <<P_OPEN>> \o CODE_OPEN \o <<"b", "</code>">> \o CODE_OPEN \o <<"b", "</code>", "</p>">>

\* src is a line, a blank line and a line, the first and the last not blank
IsBlankBetween ==
  /\ Len(SourceLines(src)) = 3
  /\ ~IsBlank(SourceLines(src)[1])
  /\ SourceLines(src)[2] = <<>>
  /\ ~IsBlank(SourceLines(src)[3])

\* C21: in the block parser a blank line terminates the unit being
\* accumulated and itself emits no markup: the lines after the blank line
\* start a new unit, so the markup of a line, a blank line and a line is
\* the markup of the first line followed by the markup of the last, and two
\* list items separated by a blank line are rendered as two lists.
C21_BlankLineEndsUnit ==
  (pc = "done" /\ IsBlankBetween)
    => html = renderMarkdown(SourceLines(src)[1]) \o <<"\n">> \o renderMarkdown(SourceLines(src)[3])

\* - a, a blank line, - a: one list of two items
C21_OneListAcrossBlank ==
  /\ pc = "done"
  /\ src = <<"-", " ", "a", "\n", "\n", "-", " ", "a">>
  /\ html = <<UL_OPEN, LI_OPEN, "a", "</li>", LI_OPEN, "a", "</li>", "</ul>">>

\* every line of src is a list item, the first at indent 0
IsItemRun ==
  /\ \A k \in 1..Len(SourceLines(src)) : ItemMatch(SourceLines(src)[k]).ok
  /\ ItemMatch(SourceLines(src)[1]).indent = 0

\* C22: parseListAt decides ordered versus unordered once, from the first
\* item's marker (digits followed by '.' means ordered): every item at the
\* run's base indent goes into that single list element, whatever marker
\* kind the later items use.
C22_ListKindFromFirstItem ==
  (pc = "done" /\ IsItemRun)
    => /\ html[1] = (IF ItemMatch(SourceLines(src)[1]).ordered THEN OL_OPEN ELSE UL_OPEN)
       /\ html[Len(html)] = (IF ItemMatch(SourceLines(src)[1]).ordered THEN "</ol>" ELSE "</ul>")
       /\ \A k \in 2..Len(html) : ListDepth(k) >= 1
       /\ Cardinality({k \in 1..Len(html) : html[k] = LI_OPEN /\ ListDepth(k) = 1})
            = Cardinality({k \in 1..Len(SourceLines(src)) : ItemMatch(SourceLines(src)[k]).indent = 0})

\* 1. a then - a: one ordered list of two items
C22_OrderedThenDash ==
  /\ pc = "done"
  /\ src = <<"1", ".", " ", "a", "\n", "-", " ", "a">>
  /\ html = <<OL_OPEN, LI_OPEN, "a", "</li>", LI_OPEN, "a", "</li>", "</ol>">>

\* & < > of a text as character references
Escaped(text) ==
  [j \in 1..Len(text) |->
     CASE text[j] = "&" -> "&amp;" [] text[j] = "<" -> "&lt;" [] text[j] = ">" -> "&gt;"
       [] OTHER -> text[j]]

\* the first line after line 1 of lines that starts with fence once trimmed,
\* Len(lines) + 1 if there is none
ClosingLine(lines, fence) ==
  IF \E k \in 2..Len(lines) : SeqAt(Trim(lines[k]), 1, fence)
  THEN Min({k \in 2..Len(lines) : SeqAt(Trim(lines[k]), 1, fence)})
  ELSE Len(lines) + 1

\* C23: a fenced code block opened by a run of at least three identical
\* fence characters is closed only by a later line that starts with the
\* same fence run; when no such line exists the block consumes every
\* remaining line to end-of-input, and all consumed lines are emitted
\* HTML-escaped inside one code block with no inline rule applied.
C23_FenceConsumesToClosing ==
  (pc = "done" /\ remaining # <<>> /\ FenceMatch(remaining[1]).ok)
    => /\ html[1] = PRE_OPEN
       /\ SeqAt(html, FirstFrom(html, 1, {"\">"}),
                <<"\">">>
                  \o Escaped(Join(SubSeq(remaining, 2,
                                         ClosingLine(remaining, FenceMatch(remaining[1]).fence) - 1),
                                  <<"\n">>))
                  \o <<"</code></pre>">>)
       /\ (ClosingLine(remaining, FenceMatch(remaining[1]).fence) >= Len(remaining)
             => Len(Positions(html, PRE_OPEN)) = 1)

\* an opening fence of backticks, a line of text and a line of tildes: no
\* line closes the block, both lines are its code
C23_UnterminatedFence ==
  /\ pc = "done"
  /\ src = <<BT, BT, BT, "\n", "*", "a", "<", "&", "*", "\n", "~", "~", "~">>
  /\ html = <<PRE_OPEN, "<code class=\"", "\">", "*", "a", "&lt;", "&amp;", "*", "\n",
              "~", "~", "~", "</code></pre>">>

\* the delimiters of a row that no backslash precedes, after the trim and
\* the removal of one leading and one trailing delimiter
UnescapedPipes(line) ==
  LET t0 == Trim(line)
      t1 == IF t0 # <<>> /\ t0[1] = "|" THEN Tail(t0) ELSE t0
      t2 == IF t1 # <<>> /\ t1[Len(t1)] = "|" THEN Sub(t1, 1, Len(t1) - 1) ELSE t1
  IN {j \in 1..Len(t2) : t2[j] = "|" /\ (j = 1 \/ t2[j - 1] # "\\")}

\* C24: parseTableAt and isTableDivider split a row into cells only at
\* unescaped delimiter boundaries, after trimming one leading and one
\* trailing delimiter: a backslash-escaped delimiter inside a cell does not
\* start a new cell, so a table has one header cell more than its header
\* row has unescaped delimiters.
C24_SplitAtUnescapedOnly ==
  (pc = "done" /\ IsTableStart(SourceLines(src), 1))
    => Cardinality({k \in 1..Len(html) : html[k] = "<th"})
         = Cardinality(UnescapedPipes(SourceLines(src)[1])) + 1

\* | A\|B | over | --- |: two header cells, A\ and B
C24_EscapedPipeSplits ==
  /\ pc = "done"
  /\ src = <<"|", " ", "A", "\\", "|", "B", " ", "|", "\n", "|", " ", "-", "-", "-", " ", "|">>
  /\ Cardinality({k \in 1..Len(html) : html[k] = "<th"}) = 2
  /\ \E k \in 1..Len(html) : html[k] = "<th" /\ html[k + 2] = "A" /\ html[k + 3] = "\\" /\ html[k + 4] = "</th>"

\* the indexes of html where an emoji span opens
EmojiSpans ==
  {k \in 1..Len(html) :
     html[k] = "<span class=\"md-emoji inline-block align-[-0.15em]\" role=\"img\" aria-label=\""}

\* the aria-label of the emoji span that opens at index k of html
EmojiLabel(k) == Sub(html, k + 1, FirstFrom(html, k + 1, {"\">"}) - 1)

\* C25: for every :name: whose name is not a key of the emoji table the
\* text is left literal and no emoji markup is produced: every emoji span of
\* the result is labelled by a name that, lower-cased, is an entry of
\* EMOJI_MAP, and holds that entry's glyph.
C25_OnlyTableEmoji ==
  pc = "done"
    => \A k \in EmojiSpans :
         \E j \in 1..Len(EMOJI_MAP) :
           /\ toLowerCase(EmojiLabel(k)) = EMOJI_MAP[j][1]
           /\ Sub(html, k + Len(EmojiLabel(k)) + 2, k + Len(EmojiLabel(k)) + 1 + Len(EMOJI_MAP[j][2]))
                = EMOJI_MAP[j][2]

\* :constructor: comes back as an emoji span holding the text of the
\* Object function
C25_InheritedNameIsEmoji ==
  /\ pc = "done"
  /\ src = <<":", "constructor", ":">>
  /\ \E k \in EmojiSpans :
       /\ EmojiLabel(k) = <<"constructor">>
       /\ html[k + 3] = "function Object() { [native code] }"

\* is the color name, lower-cased, a named color or three or six hex
\* digits after an optional #
IsColor(name) == toLowerCase(name) \in NamedColors \/ HexColor(toLowerCase(name)) # <<>>

\* the opening tag of the span of a color name
ColorOpen(name) ==
  IF toLowerCase(name) \in NamedColors
  THEN <<"<span class=\"", "text-">> \o toLowerCase(name) \o <<"-500", "\">">>
  ELSE <<"<span style=\"color:", "#">> \o HexColor(toLowerCase(name)) \o <<"\">">>

\* the markup of an inline text rendered on its own, without the paragraph
\* around it
InlineMarkup(text) == Sub(renderMarkdown(text), 2, Len(renderMarkdown(text)) - 1)

\* C26: [color=X]...[/color] produces a styled span only when X,
\* lower-cased, is one of the fixed named colors or a 3- or 6-digit hex
\* value, and then the span holds its inner content rendered as inline
\* markup; otherwise the token is left literal (its content going through
\* the later inline rules like any other text).
C26_ColorSpan ==
  \A name \in ColorNames, content \in ColorContents :
    (pc = "done" /\ src = ColorDoc(name, content))
      => html = <<P_OPEN, "a", " ">>
                  \o (IF IsColor(name)
                      THEN ColorOpen(name) \o InlineMarkup(content) \o <<"</span>">>
                      ELSE <<"[", "color", "=">> \o name \o <<"]">> \o InlineMarkup(content)
                             \o <<"[", "/", "color", "]">>)
                  \o <<"</p>">>

\* a [color=red]:smile:[/color]: the span holds the placeholder key of the
\* shortcode, not its markup
C26_KeyInsideSpan ==
  /\ pc = "done"
  /\ src = ColorDoc(<<"red">>, <<":", "smile", ":">>)
  /\ html = <<P_OPEN, "a", " ", "<span class=\"", "text-", "red", "-500", "\">",
              "\\uE000", "0", "\\uE001", "</span>", "</p>">>

\* the blockquotes and lists that are open before token k of html
NestDepth(k) ==
  CountBefore(html, k, {BLOCKQUOTE_OPEN, UL_OPEN, OL_OPEN})
    - CountBefore(html, k, {"</blockquote>", "</ul>", "</ol>"})

\* C27: the recursion depth of the block parser (nested blockquotes
\* re-entering parseBlocks, nested lists re-entering parseListAt) is bounded
\* by a fixed limit, the nesting beyond it being flattened into literal
\* text: the markup is never nested as deep as the deepest document checked,
\* which has MaxNest lists and blockquotes inside one another.
C27_NestingLimited ==
  pc = "done" => \A k \in 1..Len(html) : NestDepth(k) < MaxNest

\* MaxNest - 1 lists inside a blockquote come back as MaxNest nested
\* elements around the last item, none of the nesting left as text
C27_NestedAllTheWay ==
  /\ pc = "done"
  /\ src = NestDoc(1, MaxNest - 1, <<"a">>)
  /\ \E k \in 1..Len(html) :
       /\ NestDepth(k) = MaxNest
       /\ html[k] = LI_OPEN
       /\ CountBefore(html, k, {BLOCKQUOTE_OPEN}) = 1
       /\ CountBefore(html, k, {"</blockquote>", "</ul>", "</ol>"}) = 0
  /\ \A k \in 1..Len(html) : html[k] \notin {">", "-"}

\* C28: every line between an opening fence and its closing fence is
\* emitted inside the code block, in order and escaped, also when the line
\* has the form of a footnote, abbreviation or link definition: the code of
\* a document that opens with a fence is the lines of the document up to
\* the closing line.
C28_FenceKeepsEveryLine ==
  (pc = "done" /\ FenceMatch(SourceLines(src)[1]).ok)
    => /\ html[1] = PRE_OPEN
       /\ SeqAt(html, FirstFrom(html, 1, {"\">"}),
                <<"\">">>
                  \o Escaped(Join(SubSeq(SourceLines(src), 2,
                                         ClosingLine(SourceLines(src),
                                                     FenceMatch(SourceLines(src)[1]).fence) - 1),
                                  <<"\n">>))
                  \o <<"</code></pre>">>)

\* a footnote definition between two fences: the code block is empty and
\* the line is a footnote of the document
C28_DefinitionTakenFromFence ==
  /\ pc = "done"
  /\ src = <<BT, BT, BT, "\n", "[", "^", "1", "]", ":", " ", "x", "\n", BT, BT, BT>>
  /\ footnoteDefs = << <<<<"1">>, <<"x">>>> >>
  /\ SubSeq(html, 1, 4) = <<PRE_OPEN, "<code class=\"", "\">", "</code></pre>">>

\* the ids of the entries of the footnotes section of html, in order
EntryIds ==
  [n \in 1..Len(Positions(html, "<li id=\"fn-")) |->
     Sub(html, Positions(html, "<li id=\"fn-")[n] + 1,
         FirstFrom(html, Positions(html, "<li id=\"fn-")[n], {"\" class=\"ml-1\">"}) - 1)]

\* the ids of the footnote definition lines of src in order, each id at its
\* first definition only
FirstDefined ==
  SelectSeq([k \in 1..Len(SourceLines(src)) |-> <<k, FootnoteDefMatch(SourceLines(src)[k]).id>>],
            LAMBDA e : e[1] = Min(FootnoteLines(e[2])))

\* C29: the entries of the footnotes section appear in the order in which
\* the footnote ids were first defined in the source, one entry per
\* distinct id, for every set of ids: numeric ids such as 2 and 1 as well as
\* non-numeric ones.
C29_FirstDefinitionOrder ==
  pc = "done" => EntryIds = [n \in 1..Len(FirstDefined) |-> FirstDefined[n][2]]

\* [^2] defined before [^1]: the entry of 1 comes first
C29_NumericIdsSorted ==
  /\ pc = "done"
  /\ src = <<"[", "^", "2", "]", ":", " ", "a", "\n", "[", "^", "1", "]", ":", " ", "b">>
  /\ EntryIds = << <<"1">>, <<"2">> >>

\* C30: the table-of-contents navigation block appears in the output only
\* where the block parser consumed a [toc] / [TOC] directive line; author
\* text never causes a navigation block to be inserted: a document none of
\* whose lines is the directive has no navigation block.
C30_NavOnlyFromDirective ==
  (pc = "done" /\ \A k \in 1..Len(SourceLines(src)) : ~IsTocLine(SourceLines(src)[k]))
    => ~Includes(html, <<NAV_OPEN>>)

\* the characters of the marker between two fences: the code block holds
\* an empty navigation block in their place
C30_NavInsideCode ==
  /\ pc = "done"
  /\ src = <<BT, BT, BT, "\n">> \o TOC_PLACEHOLDER \o <<"\n", BT, BT, BT>>
  /\ html = <<PRE_OPEN, "<code class=\"", "\">", NAV_OPEN, "</nav>", "</code></pre>">>

====
